---- MODULE Spec2Model ----
(***************************************************************************)
(* Dual-strategy anomaly detection and recommendation engine               *)
(* (infrastructure_optimizer).  The model follows the Django sources:      *)
(*   ingestion/models.py                   the two tables                  *)
(*   analysis/services/classic/detector.py threshold detector              *)
(*   analysis/services/llm/{engine,detector}.py  AI detector               *)
(*   analysis/services/services.py         detection selector              *)
(*   analysis/views.py                     single / batch analysis         *)
(*   recommendations/services.py           report selector and batch       *)
(*   recommendations/services/classic/generator.py  rule-based generator  *)
(*   recommendations/services/llm/{engine,generator}.py  AI generator      *)
(*   recommendations/views.py              single / batch reports          *)
(*   infrastructure_optimization/core/services/azure_openai.py             *)
(*                                         completion service and parsing  *)
(* Dictionaries are functions over string keys, a missing key is a key     *)
(* outside the DOMAIN.  None is the response of kind "none".               *)
(***************************************************************************)
EXTENDS FiniteSets, Integers, Sequences, TLC

VARIABLES metrics, detections, reports, azure_client, azure_service, last

vars == <<metrics, detections, reports, azure_client, azure_service, last>>

(***************************************************************************)
(* Bounds of the model                                                     *)
(***************************************************************************)
NumSnapshots == 2
MaxStrongCorrelations == 4

Snapshots == 1..NumSnapshots

(***************************************************************************)
(* Dictionaries                                                            *)
(***************************************************************************)
EmptyDict == [k \in {} |-> 0]

Get(d, k, default) == IF k \in DOMAIN d THEN d[k] ELSE default

\* dict.update(other)
Update(d, other) ==
    [k \in (DOMAIN d) \cup (DOMAIN other) |->
        IF k \in DOMAIN other THEN other[k] ELSE d[k]]

\* a key that is present when opt is a singleton and absent when opt is {}
OptKey(k, opt) ==
    IF opt = {} THEN EmptyDict ELSE (k :> (CHOOSE v \in opt : TRUE))

Take(s, n) == IF Len(s) <= n THEN s ELSE SubSeq(s, 1, n)

Min(a, b) == IF a <= b THEN a ELSE b

(***************************************************************************)
(* ingestion/models.py                                                     *)
(***************************************************************************)
anomaly_fields ==
    <<"cpu_anomaly", "memory_anomaly", "latency_anomaly", "disk_anomaly",
      "io_anomaly", "error_rate_anomaly", "temperature_anomaly",
      "power_anomaly", "service_anomaly">>

FlagFields == {anomaly_fields[i] : i \in 1..Len(anomaly_fields)}

\* every status other than online counted as a degradation
has_degraded_services_NonOnline(m) ==
    \E s \in DOMAIN m.service_status : m.service_status[s] # "online"

\* InfrastructureMetrics.has_degraded_services
has_degraded_services(m) ==
    IF DOMAIN m.service_status = {} THEN FALSE
    ELSE \E s \in DOMAIN m.service_status :
            m.service_status[s] \in {"degraded", "offline", "error"}

\* AnomalyDetection.total_anomalies: the flags are kept as the set of the
\* fields that are true
total_anomalies(d) == Cardinality(d.flags)

\* AnomalyDetection.is_critical
is_critical(d) == d.severity_score >= 7

\* the rows of the AnomalyDetection table that reference snapshot sid
RowsOf(rows, sid) == {i \in 1..Len(rows) : rows[i].metrics = sid}

\* hasattr(metrics, 'anomaly_detection')
HasDetection(rows, sid) == RowsOf(rows, sid) # {}

\* metrics.anomaly_detection
DetectionOf(rows, sid) == rows[CHOOSE i \in RowsOf(rows, sid) : TRUE]

RemoveAt(rows, i) ==
    [j \in 1..(Len(rows) - 1) |-> IF j < i THEN rows[j] ELSE rows[j + 1]]

\* existing_analysis.delete()
DeleteDetection(rows, sid) ==
    RemoveAt(rows, CHOOSE i \in RowsOf(rows, sid) : TRUE)

\* a foreign key without the unique column
UniqueViolation_NotUnique(rows, sid) == FALSE

\* The one-to-one field is a unique column: a second row for the same
\* snapshot is refused with an IntegrityError.
UniqueViolation(rows, sid) == RowsOf(rows, sid) # {}

(***************************************************************************)
(* Snapshots the ingestion layer may have stored.  error_rate is kept in   *)
(* hundredths (0.05 is 5).                                                 *)
(***************************************************************************)
Healthy ==
    [cpu_usage |-> 50, memory_usage |-> 50, latency_ms |-> 100,
     disk_usage |-> 50, io_wait |-> 5, error_rate |-> 1,
     temperature_celsius |-> 50, power_consumption_watts |-> 200,
     service_status |-> ("database" :> "online" @@ "cache" :> "online")]

Overloaded ==
    [cpu_usage |-> 81, memory_usage |-> 86, latency_ms |-> 501,
     disk_usage |-> 91, io_wait |-> 21, error_rate |-> 6,
     temperature_celsius |-> 76, power_consumption_watts |-> 401,
     service_status |-> ("database" :> "error" @@ "cache" :> "online")]

CpuOnly ==
    [Healthy EXCEPT !.cpu_usage = 96]

(***************************************************************************)
(* analysis/services/classic/detector.py                                   *)
(***************************************************************************)
thresholds ==
    [cpu_usage |-> 80, memory_usage |-> 85, latency_ms |-> 500,
     disk_usage |-> 90, io_wait |-> 20, error_rate |-> 5,
     temperature_celsius |-> 75, power_consumption_watts |-> 400]

\* ClassicAnomalyDetector.detect_anomalies: the set of the flags that are true
ClassicDetect(m) ==
    {f \in FlagFields :
        \/ f = "cpu_anomaly" /\ m.cpu_usage > thresholds.cpu_usage
        \/ f = "memory_anomaly" /\ m.memory_usage > thresholds.memory_usage
        \/ f = "latency_anomaly" /\ m.latency_ms > thresholds.latency_ms
        \/ f = "disk_anomaly" /\ m.disk_usage > thresholds.disk_usage
        \/ f = "io_anomaly" /\ m.io_wait > thresholds.io_wait
        \/ f = "error_rate_anomaly" /\ m.error_rate > thresholds.error_rate
        \/ f = "temperature_anomaly"
              /\ m.temperature_celsius > thresholds.temperature_celsius
        \/ f = "power_anomaly"
              /\ m.power_consumption_watts > thresholds.power_consumption_watts
        \/ f = "service_anomaly" /\ has_degraded_services(m)}

weights_Flat == [f \in FlagFields |-> 2]

weights ==
    [cpu_anomaly |-> 2, memory_anomaly |-> 2, disk_anomaly |-> 3,
     latency_anomaly |-> 2, io_anomaly |-> 1, error_rate_anomaly |-> 3,
     temperature_anomaly |-> 2, power_anomaly |-> 1, service_anomaly |-> 3]

\* the loop "for anomaly_type, detected in anomalies.items()" from the
\* i-th field on: score += weights[anomaly_type] for the flags that are set
RECURSIVE SumFrom(_, _)
SumFrom(flags, i) ==
    IF i > Len(anomaly_fields) THEN 0
    ELSE (IF anomaly_fields[i] \in flags THEN weights[anomaly_fields[i]]
          ELSE 0)
         + SumFrom(flags, i + 1)

SumWeights(flags) == SumFrom(flags, 1)

calculate_severity_score_Uncapped(flags) == SumWeights(flags)

\* ClassicAnomalyDetector.calculate_severity_score
calculate_severity_score(flags) == Min(SumWeights(flags), 10)

\* ClassicAnomalyDetector.generate_summary: the messages of the triggered
\* flags in the order of the code, behind the fixed prefix
SummaryOrder ==
    <<"cpu_anomaly", "memory_anomaly", "latency_anomaly", "disk_anomaly",
      "io_anomaly", "error_rate_anomaly", "temperature_anomaly",
      "power_anomaly", "service_anomaly">>

generate_summary_Prefixed(flags, m) ==
    <<"Analyse classique - Seuils depasses: ">>
    \o SelectSeq(SummaryOrder, LAMBDA f : f \in flags)

generate_summary(flags, m) ==
    LET anomaly_messages ==
            SelectSeq(SummaryOrder, LAMBDA f : f \in flags)
    IN  IF anomaly_messages = <<>>
        THEN <<"Aucune anomalie detectee par analyse classique">>
        ELSE <<"Analyse classique - Seuils depasses: ">> \o anomaly_messages

(***************************************************************************)
(* analysis/services/llm/engine.py                                         *)
(* A completion reply after cleaning and json.loads is None (no client, an *)
(* API error, text that is not JSON, or the JSON null), a JSON object, or  *)
(* a non-empty JSON array.                                                 *)
(***************************************************************************)
None == [kind |-> "none", body |-> EmptyDict]

Dict(body) == [kind |-> "dict", body |-> body]

JsonList == [kind |-> "list", body |-> EmptyDict]

\* Python truth value of a reply
Truthy(r) ==
    \/ r.kind = "list"
    \/ r.kind = "dict" /\ DOMAIN r.body # {}

\* LLMAnalysisEngine.call_llm_analysis: reply is what the service answers
\* when it is asked
call_llm_analysis(client, reply) == IF ~client THEN None ELSE reply

\* a variant that returns the row without marking the snapshot analysed
PersistAnalysis_Unmarked(m, rows, rec, anomalous, fail) ==
    IF fail = "create" \/ UniqueViolation(rows, rec.metrics)
    THEN [m |-> m, rows |-> rows, ret |-> <<>>, ops |-> <<>>]
    ELSE IF fail = "save"
    THEN [m |-> m, rows |-> Append(rows, rec), ret |-> <<>>,
          ops |-> <<"create">>]
    ELSE [m |-> [m EXCEPT !.is_anomalous = anomalous],
          rows |-> Append(rows, rec), ret |-> <<rec>>,
          ops |-> <<"create", "save">>]

\* AnomalyDetection.objects.create(...) followed by the update of the two
\* status booleans (lines 187-199 of the classic detector, 203-215 of the AI
\* detector).  fail names the step that raises, if any.  The result is the
\* row of the snapshot, the table, the returned record (<<>> is None) and
\* the writes that were committed, in order.
PersistAnalysis(m, rows, rec, anomalous, fail) ==
    IF fail = "create" \/ UniqueViolation(rows, rec.metrics)
    THEN [m |-> m, rows |-> rows, ret |-> <<>>, ops |-> <<>>]
    ELSE IF fail = "save"
    THEN [m |-> m, rows |-> Append(rows, rec), ret |-> <<>>,
          ops |-> <<"create">>]
    ELSE [m |-> [m EXCEPT !.is_anomalous = anomalous,
                          !.analysis_completed = TRUE],
          rows |-> Append(rows, rec), ret |-> <<rec>>,
          ops |-> <<"create", "save">>]

\* the row analyze_metrics builds from the flags of detect_anomalies
ClassicRecord(m, sid, anomalies) ==
    [metrics |-> sid,
     flags |-> anomalies,
     anomaly_summary |-> generate_summary(anomalies, m),
     severity_score |-> calculate_severity_score(anomalies),
     analysis_method |-> "classic"]

\* ClassicAnomalyDetector.analyze_metrics; the flags and the row are
\* computed once, as the code does, and handed on
ClassicAnalyze(m, rows, sid, fail) ==
    IF fail = "compute"
    THEN [m |-> m, rows |-> rows, ret |-> <<>>, ops |-> <<>>,
          calls |-> <<>>, analysis |-> None]
    ELSE CHOOSE p \in
             {PersistAnalysis(m, rows, rec, rec.flags # {}, fail)
              @@ [calls |-> <<>>, analysis |-> None] :
                  rec \in {ClassicRecord(m, sid, anomalies) :
                               anomalies \in {ClassicDetect(m)}}} : TRUE

(***************************************************************************)
(* analysis/services/llm/detector.py                                       *)
(***************************************************************************)
\* the description string built from one strong correlation
CorrelationDesc(corr) ==
    [pair |-> Get(corr, "metrics_pair", <<>>),
     explanation |-> Get(corr, "explanation", "correlation detectee")]

\* the five risk fields copied from the severity assessment
RiskFields(sev) ==
    [severity_justification |-> Get(sev, "severity_justification", ""),
     immediate_risk |-> Get(sev, "immediate_risk", FALSE),
     cascade_risk |-> Get(sev, "cascade_risk", FALSE),
     business_impact |-> Get(sev, "business_impact", "inconnu"),
     time_to_failure |-> Get(sev, "time_to_failure", "indetermine")]

\* the attribute errors of _merge_llm_analyses: update/get on a list
MergeRaises(anomaly_analysis, severity_analysis, correlation_analysis) ==
    \/ /\ Truthy(severity_analysis)
       /\ \/ anomaly_analysis.kind = "list"
          \/ severity_analysis.kind = "list"
    \/ /\ Truthy(correlation_analysis)
       /\ \/ anomaly_analysis.kind = "list"
          \/ correlation_analysis.kind = "list"

\* the risk fields are added but the base score is kept
MergeSeverity_KeepBase(complete, severity_analysis) ==
    IF ~Truthy(severity_analysis) THEN complete
    ELSE Update(complete, RiskFields(severity_analysis.body))

MergeSeverity(complete, severity_analysis) ==
    IF ~Truthy(severity_analysis) THEN complete
    ELSE LET c1 == Update(complete, RiskFields(severity_analysis.body))
         IN  IF "severity_score" \in DOMAIN severity_analysis.body
             THEN Update(c1, "severity_score" :>
                                 severity_analysis.body["severity_score"])
             ELSE c1

MergeCorrelations(complete, correlation_analysis) ==
    IF ~Truthy(correlation_analysis) THEN complete
    ELSE LET existing_correlations ==
                 Get(complete, "correlations_found", <<>>)
             strong == Get(correlation_analysis.body,
                           "strong_correlations", <<>>)
             new_correlations ==
                 [i \in 1..Len(strong) |-> CorrelationDesc(strong[i])]
         IN  Update(complete,
                 "correlations_found" :>
                     (existing_correlations \o Take(new_correlations, 3))
                 @@ "correlation_insights" :>
                     Get(correlation_analysis.body, "insights", <<>>))

\* LLMAnomalyDetector._merge_llm_analyses, when it does not raise
merge_llm_analyses(anomaly, severity_analysis, correlation_analysis) ==
    IF anomaly.kind = "list" THEN anomaly
    ELSE Dict(MergeCorrelations(
                 MergeSeverity(anomaly.body, severity_analysis),
                 correlation_analysis))

\* a detection that goes on with a default analysis when call 1 fails
LLMDetect_Fallback(client, r1, r2, r3) ==
    IF ~client THEN [result |-> None, calls |-> <<>>]
    ELSE LET anomaly_analysis ==
                 IF Truthy(r1) THEN r1
                 ELSE Dict("severity_score" :> 5)
         IN  [result |->
                 IF MergeRaises(anomaly_analysis, r2, r3) THEN None
                 ELSE merge_llm_analyses(anomaly_analysis, r2, r3),
              calls |-> <<"anomaly_detection", "severity_assessment",
                          "correlation_analysis">>]

\* a detection that gives up as soon as one of the three calls fails
LLMDetect_AllOrNothing(client, r1, r2, r3) ==
    IF ~client THEN [result |-> None, calls |-> <<>>]
    ELSE IF ~Truthy(r1)
    THEN [result |-> None, calls |-> <<"anomaly_detection">>]
    ELSE [result |->
             IF \/ MergeRaises(r1, r2, r3)
                \/ ~Truthy(r2)
                \/ ~Truthy(r3)
             THEN None
             ELSE merge_llm_analyses(r1, r2, r3),
          calls |-> <<"anomaly_detection", "severity_assessment",
                      "correlation_analysis">>]

\* LLMAnomalyDetector.detect_anomalies: the merged analysis (None when
\* unavailable) and the completion calls that were issued
LLMDetect(client, r1, r2, r3) ==
    IF ~client THEN [result |-> None, calls |-> <<>>]
    ELSE LET anomaly_analysis == call_llm_analysis(client, r1)
         IN  IF ~Truthy(anomaly_analysis)
             THEN [result |-> None, calls |-> <<"anomaly_detection">>]
             ELSE LET severity_analysis == call_llm_analysis(client, r2)
                      correlation_analysis == call_llm_analysis(client, r3)
                  IN  [result |->
                          IF MergeRaises(anomaly_analysis, severity_analysis,
                                         correlation_analysis)
                          THEN None
                          ELSE merge_llm_analyses(anomaly_analysis,
                                   severity_analysis, correlation_analysis),
                       calls |-> <<"anomaly_detection",
                                   "severity_assessment",
                                   "correlation_analysis">>]

\* the nine keys of anomalies_detected and the flag each one sets
LLMKeyField ==
    [cpu |-> "cpu_anomaly", memory |-> "memory_anomaly",
     latency |-> "latency_anomaly", disk |-> "disk_anomaly",
     io |-> "io_anomaly", error_rate |-> "error_rate_anomaly",
     temperature |-> "temperature_anomaly", power |-> "power_anomaly",
     services |-> "service_anomaly"]

\* LLMAnomalyDetector._convert_llm_to_model_format; anomalies_detected is
\* kept as the set of the keys whose value is true
convert_llm_to_model_format(llm_analysis) ==
    LET llm_anomalies == Get(llm_analysis, "anomalies_detected", {})
    IN  {LLMKeyField[k] : k \in llm_anomalies \cap DOMAIN LLMKeyField}

\* risk statements that contain the word 'indisponible'
Indisponible == {"Analyse indisponible"}

\* LLMAnomalyDetector.generate_llm_summary: the parts of the summary
generate_llm_summary(llm_analysis) ==
    LET risk_assessment == Get(llm_analysis, "risk_assessment", "")
        explanations == Get(llm_analysis, "anomaly_explanations", <<>>)
        correlations == Get(llm_analysis, "correlations_found", <<>>)
        summary_parts ==
            (IF risk_assessment # "" /\ risk_assessment \notin Indisponible
             THEN <<[part |-> "LLM: ", text |-> <<risk_assessment>>]>>
             ELSE <<>>)
            \o (IF explanations # <<>>
                   /\ explanations # <<"Analyse LLM non disponible">>
                THEN <<[part |-> "Details: ", text |-> Take(explanations, 2)]>>
                ELSE <<>>)
            \o (IF correlations # <<>>
                THEN <<[part |-> "Correlations: ",
                        text |-> Take(correlations, 2)]>>
                ELSE <<>>)
    IN  IF summary_parts = <<>>
        THEN <<[part |-> "Analyse LLM: Aucune anomalie significative detectee",
                text |-> <<>>]>>
        ELSE summary_parts

\* the anomalous flag taken from the mapped flags alone
llm_is_anomalous_FlagsOnly(llm_analysis, model_anomalies) ==
    model_anomalies # {}

\* the value analyze_metrics gives to metrics.is_anomalous
llm_is_anomalous(llm_analysis, model_anomalies) ==
    \/ Get(llm_analysis, "is_critical", FALSE)
    \/ model_anomalies # {}

\* the row analyze_metrics builds from the merged analysis
LLMRecord(sid, body) ==
    [metrics |-> sid,
     flags |-> convert_llm_to_model_format(body),
     anomaly_summary |-> generate_llm_summary(body),
     severity_score |-> Get(body, "severity_score", 5),
     analysis_method |-> "llm"]

\* analyze_metrics once detect_anomalies returned d: "if not llm_analysis:
\* return None", then the row and the two writes
LLMStore(m, rows, sid, fail, d) ==
    IF \/ ~Truthy(d.result)
       \/ d.result.kind = "list"
       \/ fail = "compute"
    THEN [m |-> m, rows |-> rows, ret |-> <<>>, ops |-> <<>>,
          calls |-> d.calls, analysis |-> d.result]
    ELSE CHOOSE p \in
             {PersistAnalysis(m, rows, rec,
                  llm_is_anomalous(d.result.body, rec.flags), fail)
              @@ [calls |-> d.calls, analysis |-> d.result] :
                  rec \in {LLMRecord(sid, d.result.body)}} : TRUE

\* LLMAnomalyDetector.analyze_metrics; the merged analysis and the row are
\* computed once, as the code does, and handed on
LLMAnalyze(m, rows, sid, client, r1, r2, r3, fail) ==
    CHOOSE a \in {LLMStore(m, rows, sid, fail, d) :
                      d \in {LLMDetect(client, r1, r2, r3)}} : TRUE

(***************************************************************************)
(* analysis/services/services.py                                           *)
(***************************************************************************)
\* AnomalyDetectionService.__init__: an unknown name selects 'classic'
ServiceMethod(method) ==
    IF method \in {"classic", "llm"} THEN method ELSE "classic"

\* AnomalyDetectionService.analyze_metrics
ServiceAnalyze(method, m, rows, sid, client, r1, r2, r3, fail) ==
    IF ServiceMethod(method) = "llm"
    THEN LLMAnalyze(m, rows, sid, client, r1, r2, r3, fail)
    ELSE ClassicAnalyze(m, rows, sid, fail)

(***************************************************************************)
(* recommendations/services/classic/generator.py                           *)
(* A payload is a dict of JSON values: a string is kept as the sequence of *)
(* its pieces (so that += appends), a list as the sequence of its items.   *)
(* An action keeps its title, priority, category and the source mark the   *)
(* AI generator adds ("" when the key is absent); its description, which   *)
(* only repeats the measured value, is left out.                           *)
(***************************************************************************)
Str(pieces) == [t |-> "str", s |-> pieces, l |-> <<>>]

List(items) == [t |-> "list", s |-> <<>>, l |-> items]

One(x) == Str(<<x>>)

ActionRec(title, priority, category) ==
    [title |-> title, priority |-> priority, category |-> category,
     source |-> ""]

\* the thresholds of the high tier moved above those of the detector
rules_Raised ==
    [d \in {"cpu", "memory", "disk", "latency", "temperature"} |->
        [high_threshold |-> 96, critical_threshold |-> 1000,
         high |-> ActionRec("high", "high", d),
         critical |-> ActionRec("critical", "critical", d)]]

\* ClassicRecommendationGenerator._initialize_recommendation_rules
rules ==
    [cpu |->
        [high_threshold |-> 80, critical_threshold |-> 95,
         high |-> ActionRec("Optimisation CPU", "high", "performance"),
         critical |-> ActionRec("CPU critique - Action immediate",
                                "critical", "performance")],
     memory |->
        [high_threshold |-> 85, critical_threshold |-> 95,
         high |-> ActionRec("Gestion memoire", "high", "resources"),
         critical |-> ActionRec("Memoire critique", "critical",
                                "resources")],
     disk |->
        [high_threshold |-> 85, critical_threshold |-> 95,
         high |-> ActionRec("Gestion espace disque", "high", "storage"),
         critical |-> ActionRec("Espace disque critique", "critical",
                                "storage")],
     latency |->
        [high_threshold |-> 300, critical_threshold |-> 1000,
         high |-> ActionRec("Optimisation latence", "medium", "network"),
         critical |-> ActionRec("Latence critique", "critical",
                                "network")],
     temperature |->
        [high_threshold |-> 70, critical_threshold |-> 80,
         high |-> ActionRec("Gestion thermique", "medium", "hardware"),
         critical |-> ActionRec("Surchauffe critique", "critical",
                                "hardware")]]

\* the tiers checked high first: the high action hides the critical one
AnalyzeTier_HighFirst(domain, value) ==
    IF value >= rules[domain].high_threshold
    THEN <<rules[domain].high>>
    ELSE IF value >= rules[domain].critical_threshold
    THEN <<rules[domain].critical>>
    ELSE <<>>

\* the body the five _analyze_<domain> methods share: <<>> is None
AnalyzeTier(domain, value) ==
    IF value >= rules[domain].critical_threshold
    THEN <<rules[domain].critical>>
    ELSE IF value >= rules[domain].high_threshold
    THEN <<rules[domain].high>>
    ELSE <<>>

analyze_cpu(cpu_usage) == AnalyzeTier("cpu", cpu_usage)

analyze_memory(memory_usage) == AnalyzeTier("memory", memory_usage)

analyze_disk(disk_usage) == AnalyzeTier("disk", disk_usage)

analyze_latency(latency_ms) == AnalyzeTier("latency", latency_ms)

analyze_temperature(temperature) == AnalyzeTier("temperature", temperature)

\* ClassicRecommendationGenerator._analyze_services
analyze_services(m) ==
    IF has_degraded_services(m)
    THEN <<ActionRec("Services degrades detectes", "high", "services")>>
    ELSE <<>>

\* ClassicRecommendationGenerator._analyze_errors; error_rate * 100 is the
\* rate in hundredths the model keeps
analyze_errors(error_rate) ==
    IF error_rate > 5
    THEN <<ActionRec("Taux d'erreur eleve", "high", "reliability")>>
    ELSE IF error_rate > 1
    THEN <<ActionRec("Surveillance des erreurs", "medium", "reliability")>>
    ELSE <<>>

priority_order == <<"low", "medium", "high", "critical">>

\* priority_order.index(p) if p in priority_order else 0 (0-based in the
\* code, 1-based here)
PriorityIndex(p) ==
    IF \E i \in 1..Len(priority_order) : priority_order[i] = p
    THEN CHOOSE i \in 1..Len(priority_order) : priority_order[i] = p
    ELSE 1

\* ClassicRecommendationGenerator._update_priority
update_priority(current, new) ==
    LET current_idx == PriorityIndex(current)
        new_idx == PriorityIndex(new)
    IN  priority_order[IF current_idx >= new_idx THEN current_idx
                        ELSE new_idx]

\* priority_level after the seven "if rec:" blocks of generate_recommendations
RECURSIVE FoldPriority(_, _)
FoldPriority(level, recs) ==
    IF recs = <<>> THEN level
    ELSE FoldPriority(update_priority(level, Head(recs).priority),
                      Tail(recs))

MonitoringAction == ActionRec("Surveillance continue", "low", "monitoring")

timeframe_map ==
    [critical |-> "Immediat (< 4h)", high |-> "1-3 jours",
     medium |-> "1-2 semaines", low |-> "1 mois"]

\* ClassicRecommendationGenerator._build_response
build_response(recommendations, priority_level, anomalies_summary) ==
    LET critical_count ==
            Len(SelectSeq(recommendations,
                          LAMBDA r : r.priority = "critical"))
        exec_summary ==
            IF critical_count > 0 THEN "Analyse critique"
            ELSE IF priority_level = "high" THEN "Attention"
            ELSE "Analyse de points d'amelioration"
    IN  [executive_summary |-> One(exec_summary),
         detailed_analysis |->
             Str(<<"Analyse basee sur les regles metier">>
                 \o (IF anomalies_summary = <<>>
                     THEN <<"Aucune anomalie majeure">>
                     ELSE anomalies_summary)),
         recommendations |-> List(recommendations),
         priority_level |-> One(priority_level),
         estimated_impact |-> One("Amelioration de la stabilite"),
         implementation_timeframe |->
             One(IF priority_level \in DOMAIN timeframe_map
                 THEN timeframe_map[priority_level]
                 ELSE "1-2 semaines")]

\* the fallback action added whatever fired
WithMonitoring_Always(fired) == Append(fired, MonitoringAction)

\* "if not recommendations: recommendations.append({...})"
WithMonitoring(fired) ==
    IF fired = <<>> THEN <<MonitoringAction>> ELSE fired

\* the actions of the rules that fired, in the order of the code
FiredActions(m) ==
    analyze_cpu(m.cpu_usage) \o analyze_memory(m.memory_usage)
    \o analyze_disk(m.disk_usage) \o analyze_latency(m.latency_ms)
    \o analyze_temperature(m.temperature_celsius)
    \o analyze_services(m) \o analyze_errors(m.error_rate)

\* ClassicRecommendationGenerator.generate_recommendations
classic_generate_recommendations(m, anomalies_summary) ==
    LET fired == FiredActions(m)
        priority_level == FoldPriority("low", fired)
    IN  build_response(WithMonitoring(fired), priority_level,
                       anomalies_summary)

(***************************************************************************)
(* infrastructure_optimization/core/services/azure_openai.py               *)
(* A response text is the sequence of its tokens: the fence with and       *)
(* without its language tag, the bare word json, a run of prose without    *)
(* braces, a run of whitespace ("nl"), the brackets of JSON, the scalars   *)
(* null and 1, and the members of an object (a key with its value, the     *)
(* separators understood).                                                 *)
(***************************************************************************)
Num(x) == [t |-> "num", s |-> <<x>>, l |-> <<>>]

\* the members a response object may carry
Member ==
    [m_summary |-> [k |-> "executive_summary", v |-> One("Resume")],
     m_analysis |-> [k |-> "detailed_analysis", v |-> One("Analyse")],
     m_recs |->
        [k |-> "recommendations",
         v |-> List(<<ActionRec("Action 1", "critical", "performance"),
                      ActionRec("Action 2", "medium", "network"),
                      ActionRec("Action 3", "low", "monitoring")>>)],
     m_recs_one |->
        [k |-> "recommendations",
         v |-> List(<<ActionRec("Action 1", "low", "monitoring")>>)],
     m_recs_text |-> [k |-> "recommendations", v |-> One("aucune")],
     m_high |-> [k |-> "priority_level", v |-> One("high")],
     m_low |-> [k |-> "priority_level", v |-> One("low")],
     m_urgent |-> [k |-> "priority_level", v |-> One("urgent")],
     m_impact |-> [k |-> "estimated_impact", v |-> One("Impact")],
     m_timeframe |->
        [k |-> "implementation_timeframe", v |-> One("2 jours")],
     m_a |-> [k |-> "a", v |-> Num("1")]]

JsonScalar == [kind |-> "scalar", body |-> EmptyDict]

JsonEmptyList == [kind |-> "emptylist", body |-> EmptyDict]

\* str.strip(): the whitespace at both ends removed
RECURSIVE Strip(_)
Strip(text) ==
    IF text = <<>> THEN text
    ELSE IF Head(text) = "nl" THEN Strip(Tail(text))
    ELSE IF text[Len(text)] = "nl"
    THEN Strip(SubSeq(text, 1, Len(text) - 1))
    ELSE text

\* the closing fence removed when the text ends with it
DropFenceEnd(text) ==
    IF text # <<>> /\ text[Len(text)] = "fence"
    THEN SubSeq(text, 1, Len(text) - 1)
    ELSE text

\* AzureOpenAIService._clean_response
clean_response(response) ==
    LET r == IF response # <<>>
                /\ Head(response) \in {"fence_json", "fence", "json"}
             THEN Tail(response)
             ELSE response
    IN  Strip(DropFenceEnd(r))

\* the object the members of a text denote, a later key replacing an earlier
RECURSIVE ObjectOf(_, _)
ObjectOf(members, acc) ==
    IF members = <<>> THEN acc
    ELSE ObjectOf(Tail(members),
                  Update(acc, Member[Head(members)].k
                                  :> Member[Head(members)].v))

IsObjectText(t) ==
    /\ Len(t) >= 2
    /\ t[1] = "{"
    /\ t[Len(t)] = "}"
    /\ \A i \in 2..(Len(t) - 1) : t[i] \in DOMAIN Member

IsArrayText(t) ==
    /\ Len(t) >= 2
    /\ t[1] = "["
    /\ t[Len(t)] = "]"
    /\ LET inner == SubSeq(t, 2, Len(t) - 1)
       IN  \/ \A i \in 1..Len(inner) : inner[i] \in {"1", "null"}
           \/ IsObjectText(inner)

\* json.loads: ok is false when it raises JSONDecodeError
json_loads(text) ==
    LET t == SelectSeq(text, LAMBDA x : x # "nl")
    IN  IF t = <<"null">> THEN [ok |-> TRUE, value |-> None]
        ELSE IF t = <<"1">> THEN [ok |-> TRUE, value |-> JsonScalar]
        ELSE IF IsObjectText(t)
        THEN [ok |-> TRUE,
              value |-> Dict(ObjectOf(SubSeq(t, 2, Len(t) - 1), EmptyDict))]
        ELSE IF IsArrayText(t)
        THEN [ok |-> TRUE,
              value |-> IF Len(t) = 2 THEN JsonEmptyList ELSE JsonList]
        ELSE [ok |-> FALSE, value |-> None]

\* the structure parse_json_response returns in the last resort
DefaultStructure ==
    Dict([executive_summary |-> One("Recommandations generees par LLM"),
          detailed_analysis |-> One("Analyse detaillee des metriques"),
          recommendations |-> List(<<>>),
          priority_level |-> One("medium"),
          estimated_impact |-> One("Amelioration des performances"),
          implementation_timeframe |-> One("1-2 semaines")])

\* the structure _extract_json_from_text returns for a malformed object
ExtractDefaultStructure ==
    Dict([DefaultStructure.body EXCEPT !.detailed_analysis =
              Str(<<"Analyse detaillee des metriques",
                    "Analyse ciblee services incluse.">>)])

\* text.find and text.rfind of a brace, as 1-based positions, 0 when absent
Find(text, tok) ==
    IF \E i \in 1..Len(text) : text[i] = tok
    THEN CHOOSE i \in 1..Len(text) :
             text[i] = tok /\ \A j \in 1..(i - 1) : text[j] # tok
    ELSE 0

RFind(text, tok) ==
    IF \E i \in 1..Len(text) : text[i] = tok
    THEN CHOOSE i \in 1..Len(text) :
             text[i] = tok /\ \A j \in (i + 1)..Len(text) : text[j] # tok
    ELSE 0

\* AzureOpenAIService._extract_json_from_text
extract_json_from_text(text) ==
    LET start_idx == Find(text, "{")
        end_idx == RFind(text, "}")
    IN  IF start_idx = 0 \/ end_idx = 0
        THEN [raised |-> TRUE, value |-> None]
        ELSE LET json_part == IF end_idx < start_idx THEN <<>>
                              ELSE SubSeq(text, start_idx, end_idx)
                 parsed == json_loads(json_part)
             IN  [raised |-> FALSE,
                  value |-> IF parsed.ok THEN parsed.value
                            ELSE ExtractDefaultStructure]

\* AzureOpenAIService.parse_json_response
parse_json_response(response) ==
    LET direct == json_loads(clean_response(response))
    IN  IF direct.ok THEN direct.value
        ELSE LET extracted == extract_json_from_text(response)
             IN  IF extracted.raised THEN DefaultStructure
                 ELSE extracted.value

\* what the completion service does with a request: an error of the API, or
\* a message with this content
ApiError == [err |-> TRUE, content |-> <<>>]

Content(text) == [err |-> FALSE, content |-> text]

\* AzureOpenAIService.call_completion: <<>> as ok |-> FALSE is None
call_completion(client, reply) ==
    IF ~client \/ reply.err THEN [ok |-> FALSE, content |-> <<>>]
    ELSE [ok |-> TRUE, content |-> Strip(reply.content)]

\* AzureOpenAIService.call_json_completion
call_json_completion(client, reply) ==
    LET raw_response == call_completion(client, reply)
    IN  IF ~raw_response.ok \/ raw_response.content = <<>> THEN None
        ELSE parse_json_response(raw_response.content)

(***************************************************************************)
(* analysis/services/llm/engine.py, from the text of the reply             *)
(***************************************************************************)
\* LLMAnalysisEngine._clean_json_response
clean_json_response(content) ==
    LET r == IF content # <<>> /\ Head(content) \in {"fence_json", "fence"}
             THEN Tail(content)
             ELSE content
    IN  Strip(DropFenceEnd(r))

\* LLMAnalysisEngine.call_llm_analysis, lines 86-108: the content of the
\* reply is stripped, cleaned and handed to json.loads
call_llm_analysis_text(client, reply) ==
    IF ~client \/ reply.err THEN None
    ELSE LET parsed == json_loads(clean_json_response(
                                      Strip(reply.content)))
         IN  IF parsed.ok THEN parsed.value ELSE None

(***************************************************************************)
(* recommendations/services/llm/engine.py                                  *)
(* available is is_available of the shared service; reply is what the      *)
(* completion service does with the request.                               *)
(***************************************************************************)
required_fields ==
    {"executive_summary", "detailed_analysis", "recommendations",
     "priority_level", "estimated_impact", "implementation_timeframe"}

\* RecommendationEngine._get_default_value
get_default_value(field) ==
    CASE field = "executive_summary" ->
             One("Recommandations generees par analyse LLM.")
      [] field = "detailed_analysis" ->
             One("Analyse detaillee des metriques systeme.")
      [] field = "recommendations" -> List(<<>>)
      [] field = "priority_level" -> One("medium")
      [] field = "estimated_impact" ->
             One("Amelioration des performances systeme")
      [] field = "implementation_timeframe" -> One("1-2 semaines")
      [] OTHER -> One("")

valid_priorities == {"low", "medium", "high", "critical"}

\* RecommendationEngine._estimate_confidence raises on a summary or an
\* analysis that has no len() and on a timeframe that has no lower(); the
\* confidence itself, a function of the lengths of the texts, is left out
EstimateRaises(body) ==
    \/ body.detailed_analysis.t = "num"
    \/ body.executive_summary.t = "num"
    \/ body.implementation_timeframe.t # "str"

\* "if response['priority_level'] not in valid_priorities"
ValidPriority(level) ==
    IF level.t = "str" /\ Len(level.s) = 1 /\ level.s[1] \in valid_priorities
    THEN level
    ELSE One("medium")

\* RecommendationEngine._validate_and_enrich_response on a JSON object
validate_and_enrich_response(body, sid) ==
    LET filled == [k \in DOMAIN body \cup required_fields |->
                      IF k \in DOMAIN body THEN body[k]
                      ELSE get_default_value(k)]
        listed == [filled EXCEPT !.recommendations =
                      IF @.t = "list" THEN @ ELSE List(<<>>)]
        tagged == Update(listed,
                         [analysis_type |-> One("llm_recommendations"),
                          metrics_id |-> Num(ToString(sid))])
    IN  IF EstimateRaises(listed) THEN [raised |-> TRUE, value |-> None]
        ELSE [raised |-> FALSE,
              value |-> Dict([tagged EXCEPT !.priority_level =
                                                ValidPriority(@)])]

\* RecommendationEngine.generate_recommendations.  A response that is not
\* an object makes the validation raise; the except branch returns None
engine_generate_recommendations(available, reply, sid) ==
    IF ~available THEN None
    ELSE LET response == call_json_completion(available, reply)
         IN  IF response.kind = "dict" /\ DOMAIN response.body # {}
             THEN LET v == validate_and_enrich_response(response.body, sid)
                  IN  IF v.raised THEN None ELSE v.value
             ELSE None

\* the four specialised requests of the engine share this body: the keys of
\* the variant are set on a truthy response; a list or a number raises on
\* the assignment and the except branch returns None
EngineVariant(available, reply, extra) ==
    IF ~available THEN None
    ELSE LET response == call_json_completion(available, reply)
         IN  IF response.kind = "dict" /\ DOMAIN response.body # {}
             THEN Dict(Update(response.body, extra))
             ELSE None

\* RecommendationEngine.generate_focused_recommendations
engine_generate_focused_recommendations(available, reply, focus_area) ==
    EngineVariant(available, reply,
                  [focus_area |-> One(focus_area),
                   analysis_type |-> One("focused_optimization")])

\* RecommendationEngine.generate_capacity_planning
engine_generate_capacity_planning(available, reply, projection_days) ==
    EngineVariant(available, reply,
                  [analysis_type |-> One("capacity_planning"),
                   projection_horizon_days |->
                       Num(ToString(projection_days))])

\* RecommendationEngine.generate_emergency_recommendations
engine_generate_emergency_recommendations(available, reply) ==
    EngineVariant(available, reply,
                  [priority_level |-> One("critical"),
                   analysis_type |-> One("emergency_response"),
                   implementation_timeframe |->
                       One("Immediat (< 30 min)")])

\* RecommendationEngine.generate_maintenance_plan
engine_generate_maintenance_plan(available, reply, maintenance_window) ==
    EngineVariant(available, reply,
                  [analysis_type |-> One("maintenance_planning"),
                   maintenance_window |-> One(maintenance_window)])

(***************************************************************************)
(* recommendations/services/llm/generator.py                               *)
(***************************************************************************)
\* LLMRecommendationGenerator._detect_critical_areas
detect_critical_areas(m) ==
    (IF m.cpu_usage > 85 THEN <<"cpu">> ELSE <<>>)
    \o (IF m.memory_usage > 85 THEN <<"memory">> ELSE <<>>)
    \o (IF m.disk_usage > 85 THEN <<"storage">> ELSE <<>>)
    \o (IF m.latency_ms > 500 THEN <<"network">> ELSE <<>>)
    \o (IF has_degraded_services(m) THEN <<"services">> ELSE <<>>)

\* LLMRecommendationGenerator._get_fallback_recommendations
get_fallback_recommendations(m, anomalies_summary) ==
    LET recommendations ==
            classic_generate_recommendations(m, anomalies_summary)
    IN  Update([recommendations EXCEPT !.detailed_analysis =
                    Str(@.s \o <<"(Analyse LLM indisponible)">>)],
               [analysis_type |-> One("llm_fallback")])

\* LLMRecommendationGenerator._get_focused_fallback
get_focused_fallback(focus_area) ==
    [executive_summary |-> Str(<<"Analyse via methode classique", focus_area>>),
     detailed_analysis |-> Str(<<"Recommandations de base", focus_area>>),
     recommendations |->
         List(<<ActionRec("Surveillance", "medium", focus_area)>>),
     priority_level |-> One("medium"),
     estimated_impact |-> One("Impact modere"),
     implementation_timeframe |-> One("1 semaine"),
     focus_area |-> One(focus_area),
     analysis_type |-> One("focused_fallback")]

\* LLMRecommendationGenerator._get_capacity_fallback
get_capacity_fallback(days) ==
    [executive_summary |-> Str(<<"Analyse capacite", ToString(days)>>),
     detailed_analysis |-> One("Projection basee sur les metriques actuelles"),
     recommendations |->
         List(<<ActionRec("Surveillance capacite", "medium", "monitoring")>>),
     priority_level |-> One("medium"),
     estimated_impact |-> One("Prevention saturation ressources"),
     implementation_timeframe |-> Str(<<ToString(days), "jours">>),
     analysis_type |-> One("capacity_fallback"),
     projection_horizon_days |-> Num(ToString(days))]

\* LLMRecommendationGenerator._get_emergency_fallback
get_emergency_fallback(issue) ==
    [executive_summary |-> Str(<<"Reponse urgence", issue>>),
     detailed_analysis |-> One("Recommandations d'urgence"),
     recommendations |->
         List(<<ActionRec("Investigation immediate", "critical",
                          "emergency"),
                ActionRec("Surveillance renforcee", "high", "monitoring")>>),
     priority_level |-> One("critical"),
     estimated_impact |-> One("Stabilisation systeme"),
     implementation_timeframe |-> One("Immediat"),
     analysis_type |-> One("emergency_fallback")]

\* "for rec in focused_recommendations[:2]: rec['source'] = ..."
MarkSource(recs, primary_area) ==
    [i \in 1..Len(recs) |->
        [recs[i] EXCEPT !.source = "focused_" \o primary_area]]

\* the focused requests _enrich_recommendations sends to the engine: one,
\* for the first critical area, when there is an area and the engine is
\* available
focused_calls(m, available) ==
    IF detect_critical_areas(m) = <<>> \/ ~available THEN <<>>
    ELSE <<detect_critical_areas(m)[1]>>

enrich_recommendations_All(recommendations, m, available, focused_reply) ==
    LET critical_areas == detect_critical_areas(m)
    IN  IF critical_areas = <<>> \/ ~available THEN recommendations
        ELSE LET primary_area == critical_areas[1]
                 focused_analysis ==
                     engine_generate_focused_recommendations(
                         available, focused_reply, primary_area)
             IN  IF focused_analysis.kind # "dict"
                    \/ "recommendations" \notin DOMAIN focused_analysis.body
                    \/ focused_analysis.body.recommendations.t # "list"
                 THEN recommendations
                 ELSE [recommendations EXCEPT
                          !.recommendations =
                              List(@.l \o MarkSource(
                                  focused_analysis.body
                                      .recommendations.l,
                                  primary_area)),
                          !.detailed_analysis =
                              IF @.t = "str"
                              THEN Str(@.s \o <<"Analyse ciblee incluse.",
                                                primary_area>>)
                              ELSE @]

\* LLMRecommendationGenerator._enrich_recommendations.  A focused action
\* list that is not a list raises inside the try block before anything is
\* appended, and the primary payload is returned as it was
enrich_recommendations(recommendations, m, available, focused_reply) ==
    LET critical_areas == detect_critical_areas(m)
    IN  IF critical_areas = <<>> \/ ~available THEN recommendations
        ELSE LET primary_area == critical_areas[1]
                 focused_analysis ==
                     engine_generate_focused_recommendations(
                         available, focused_reply, primary_area)
             IN  IF focused_analysis.kind # "dict"
                    \/ "recommendations" \notin DOMAIN focused_analysis.body
                    \/ focused_analysis.body.recommendations.t # "list"
                 THEN recommendations
                 ELSE [recommendations EXCEPT
                          !.recommendations =
                              List(@.l \o MarkSource(
                                  Take(focused_analysis.body
                                           .recommendations.l, 2),
                                  primary_area)),
                          !.detailed_analysis =
                              IF @.t = "str"
                              THEN Str(@.s \o <<"Analyse ciblee incluse.",
                                                primary_area>>)
                              ELSE @]

\* LLMRecommendationGenerator.generate_recommendations; raises says that
\* something raised inside the try block
llm_generate_recommendations(m, summary, sid, available, r1, r2, raises) ==
    IF ~available \/ raises THEN get_fallback_recommendations(m, summary)
    ELSE LET recommendations ==
                 engine_generate_recommendations(available, r1, sid)
         IN  IF Truthy(recommendations)
             THEN enrich_recommendations(recommendations.body, m,
                                         available, r2)
             ELSE get_fallback_recommendations(m, summary)

\* the body generate_focused_recommendations, generate_capacity_analysis
\* and generate_emergency_response share: the answer of the engine when it
\* is truthy, the fallback of the variant otherwise
GeneratorVariant_NoFallback(available, answer, fallback, raises) ==
    IF ~available \/ raises THEN fallback
    ELSE answer.body

GeneratorVariant(available, answer, fallback, raises) ==
    IF ~available \/ raises THEN fallback
    ELSE IF Truthy(answer) THEN answer.body
    ELSE fallback

\* LLMRecommendationGenerator.generate_focused_recommendations
generate_focused_recommendations(focus_area, available, reply, raises) ==
    GeneratorVariant(available,
        engine_generate_focused_recommendations(available, reply,
                                                focus_area),
        get_focused_fallback(focus_area), raises)

\* LLMRecommendationGenerator.generate_capacity_analysis
generate_capacity_analysis(projection_days, available, reply, raises) ==
    GeneratorVariant(available,
        engine_generate_capacity_planning(available, reply,
                                          projection_days),
        get_capacity_fallback(projection_days), raises)

\* LLMRecommendationGenerator.generate_emergency_response
generate_emergency_response(critical_issue, available, reply, raises) ==
    GeneratorVariant(available,
        engine_generate_emergency_recommendations(available, reply),
        get_emergency_fallback(critical_issue), raises)

(***************************************************************************)
(* recommendations/services.py and the generate_report of the two          *)
(* generators: the report row is kept by the snapshot and the generator    *)
(* that wrote it.                                                          *)
(***************************************************************************)
ReportRowsOf(rows, sid) == {i \in 1..Len(rows) : rows[i].metrics = sid}

\* RecommendationReport.objects.update_or_create(metrics=metrics, ...)
update_or_create(rows, rec) ==
    IF ReportRowsOf(rows, rec.metrics) = {} THEN Append(rows, rec)
    ELSE [i \in 1..Len(rows) |->
             IF rows[i].metrics = rec.metrics THEN rec ELSE rows[i]]

\* RecommendationService.__init__
GeneratorMethod(method) ==
    IF method \in {"classic", "llm"} THEN method ELSE "classic"

\* "if hasattr(metrics, 'anomaly_detection') and metrics.anomaly_detection":
\* the summary of the result of the snapshot, kept as a reference to it
AnomaliesSummary(drows, sid) ==
    IF HasDetection(drows, sid)
    THEN <<"anomaly_summary", DetectionOf(drows, sid).analysis_method>>
    ELSE <<"Aucune anomalie detectee">>

\* the row built from the payload of a generator
ReportRow(sid, data, generation_method) ==
    [metrics |-> sid,
     executive_summary |-> data.executive_summary,
     detailed_analysis |-> data.detailed_analysis,
     recommendations_json |-> data.recommendations,
     priority_level |-> data.priority_level,
     estimated_impact |-> data.estimated_impact,
     implementation_timeframe |-> data.implementation_timeframe,
     generation_method |-> generation_method]

\* generate_report of the generator the service selected.  inp.fail names
\* what raises, if anything: "compute" and "upsert" raise in the try block
\* of generate_report, "llm" raises inside generate_recommendations of the
\* AI generator; inp.r1 and inp.r2 are what the completion service does with
\* the primary and the focused request
\* RecommendationReport.objects.update_or_create and the return of the
\* report, with the payload it was made from
SaveReport(rows, sid, data, generation_method) ==
    [rows |-> update_or_create(rows, ReportRow(sid, data, generation_method)),
     ret |-> <<ReportRow(sid, data, generation_method)>>,
     data |-> data]

generate_report(method, m, drows, rows, sid, available, inp) ==
    IF inp.fail \in {"compute", "upsert"}
    THEN [rows |-> rows, ret |-> <<>>, data |-> EmptyDict]
    ELSE SaveReport(rows, sid,
             IF GeneratorMethod(method) = "classic"
             THEN classic_generate_recommendations(
                      m, AnomaliesSummary(drows, sid))
             ELSE llm_generate_recommendations(
                      m, AnomaliesSummary(drows, sid), sid, available,
                      inp.r1, inp.r2, inp.fail = "llm"),
             GeneratorMethod(method))

(***************************************************************************)
(* The connection configuration and the two clients built from it.  A      *)
(* configuration says which settings are defined and not empty; ctor says  *)
(* whether the constructor of the client raises.                           *)
(***************************************************************************)
Configurations ==
    [endpoint : BOOLEAN, api_key : BOOLEAN, deployment_name : BOOLEAN,
     api_version : BOOLEAN]

\* LLMAnalysisEngine._initialize_azure_client: TRUE when azure_client is set.
\* settings.AZURE_OPENAI_API_VERSION is read without a default, the
\* AttributeError of a missing setting is caught with the rest
initialize_azure_client(cfg, ctor_raises) ==
    LET missing_settings ==
            {x \in {"endpoint", "api_key", "deployment_name"} : ~cfg[x]}
    IN  IF missing_settings # {} THEN FALSE
        ELSE IF ~cfg.api_version \/ ctor_raises THEN FALSE
        ELSE TRUE

\* AzureOpenAIService._initialize_client: TRUE when client is set.  The
\* deployment name and the API version have defaults and are not tested
initialize_client(cfg, ctor_raises) ==
    IF ~(cfg.api_key /\ cfg.endpoint) THEN FALSE
    ELSE IF ctor_raises THEN FALSE
    ELSE TRUE

\* the availability reported for every detector, the threshold one too
analysis_get_method_info_Always(method, available) ==
    ("current_method" :> ServiceMethod(method))
    @@ ("detector_available" :> TRUE)

\* AnomalyDetectionService.get_method_info; available is is_available of
\* the AI detector, the only detector that has the attribute
analysis_get_method_info(method, available) ==
    ("current_method" :> ServiceMethod(method))
    @@ (IF ServiceMethod(method) = "llm"
        THEN "detector_available" :> available
        ELSE EmptyDict)

\* RecommendationService.get_method_info
recommendation_get_method_info(method, available) ==
    ("current_method" :> GeneratorMethod(method))
    @@ (IF GeneratorMethod(method) = "llm"
        THEN "generator_available" :> available
        ELSE EmptyDict)

(***************************************************************************)
(* Replies of the completion service                                       *)
(***************************************************************************)
Correlation(n) ==
    [metrics_pair |-> <<"cpu_usage", "latency_ms">>, explanation |-> n]

\* a reply to the anomaly detection prompt
DetectionReply(keys, sev, crit, corr) ==
    Dict(("anomalies_detected" :> keys)
         @@ OptKey("severity_score", sev)
         @@ OptKey("is_critical", crit)
         @@ OptKey("correlations_found", corr)
         @@ ("risk_assessment" :> "Charge elevee"))

\* a reply to the severity assessment prompt
SeverityReply(sev, risk) ==
    Dict(OptKey("severity_score", sev) @@ OptKey("immediate_risk", risk)
         @@ ("business_impact" :> "eleve"))

\* a reply to the correlation analysis prompt
CorrelationReply(n) ==
    Dict(("strong_correlations" :> [i \in 1..n |-> Correlation(i)])
         @@ ("insights" :> <<"insight">>))

\* the replies drawn when a request is followed through the views
DetectionReplies ==
    {None, JsonList,
     DetectionReply({"cpu", "latency", "services"}, {6}, {FALSE}, {})}

SeverityReplies == {None}

CorrelationReplies == {None}

\* the replies drawn when the AI strategy alone is exercised
AIDetectionReplies ==
    {None, Dict(EmptyDict),
     DetectionReply({"cpu", "latency", "services"}, {6}, {FALSE}, {}),
     DetectionReply({"network"}, {}, {}, {}),
     DetectionReply({}, {11}, {TRUE}, {}),
     DetectionReply({}, {9}, {FALSE}, {}),
     DetectionReply({"disk"}, {3}, {TRUE}, {})}

AISeverityReplies == {None, SeverityReply({-1}, {TRUE})}

AICorrelationReplies == {None}

FailPoints == {"none", "compute", "create", "save"}

ViewFailPoints == FailPoints \cup {"delete", "reset"}

(***************************************************************************)
(* analysis/views.py                                                       *)
(***************************************************************************)
\* the answer of _analyze_single_metric after the service was called
AnalysisOutcome(sid, method, r1, a, before) ==
    [op |-> "analyze_single", sid |-> sid, method |-> method,
     response |-> IF a.ret # <<>> THEN "analysis_success"
                  ELSE IF method = "llm" THEN "llm_not_configured"
                  ELSE "analysis_failed",
     analyzed |-> TRUE, r1 |-> r1, analysis |-> a.analysis,
     ret |-> a.ret, ops |-> before \o a.ops, calls |-> a.calls]

\* a variant in which the deletion of a result takes the reports with it
AnalysisFrame_Cascade ==
    /\ reports' = <<>>
    /\ UNCHANGED <<azure_client, azure_service>>

\* what _analyze_single_metric never writes: existing_analysis.delete(),
\* metrics.save() and the service write the result and the snapshot only,
\* and the report refers to the snapshot, not to the result
AnalysisFrame == UNCHANGED <<reports, azure_client, azure_service>>

\* AnomalyAnalysisView._analyze_single_metric
AnalyzeSingle(sid, method, fail, r1, r2, r3) ==
    LET m == metrics[sid]
        run(m0, rows0, before) ==
            LET a == ServiceAnalyze(method, m0, rows0, sid, azure_client,
                                    r1, r2, r3, fail)
            IN  /\ metrics' = [metrics EXCEPT ![sid] = a.m]
                /\ detections' = a.rows
                /\ last' = AnalysisOutcome(sid, method, r1, a, before)
        stop(rows0, response, ret, ops) ==
            /\ metrics' = metrics
            /\ detections' = rows0
            /\ last' = [op |-> "analyze_single", sid |-> sid,
                        method |-> method, response |-> response,
                        analyzed |-> FALSE, r1 |-> None,
                        analysis |-> None,
                        ret |-> ret, ops |-> ops, calls |-> <<>>]
    IN  /\ IF m.analysis_completed /\ HasDetection(detections, sid)
           THEN LET existing_analysis == DetectionOf(detections, sid)
                IN  IF existing_analysis.analysis_method = method
                    THEN stop(detections, "analysis_already_exists",
                              <<existing_analysis>>, <<>>)
                    ELSE IF fail = "delete"
                    THEN stop(detections, "internal_error", <<>>, <<>>)
                    ELSE IF fail = "reset"
                    THEN stop(DeleteDetection(detections, sid),
                              "internal_error", <<>>, <<"delete">>)
                    ELSE run([m EXCEPT !.analysis_completed = FALSE,
                                       !.is_anomalous = FALSE],
                             DeleteDetection(detections, sid),
                             <<"delete", "save">>)
           ELSE run(m, detections, <<>>)
        /\ AnalysisFrame

\* the ids of a set of snapshots in the order of the query
RECURSIVE InOrder(_)
InOrder(S) ==
    IF S = {} THEN <<>>
    ELSE LET x == CHOOSE y \in S : \A z \in S : y <= z
         IN  <<x>> \o InOrder(S \ {x})

\* MetricsFilters.get_unanalyzed_metrics
get_unanalyzed_metrics(ms) ==
    InOrder({sid \in Snapshots : ~ms[sid].analysis_completed})

\* the counters of one turn of the loop of analyze_batch_metrics: a record
\* counts as a success, None and an exception count as an error
CountOne(results, ret, raised, extra) ==
    IF ~raised /\ ret # <<>>
    THEN [results EXCEPT !.analyzed = @ + 1,
                         !.extra = @ + (IF extra THEN 1 ELSE 0)]
    ELSE [results EXCEPT !.errors = @ + 1]

\* the fourth counter: anomalies_detected of the classic detector,
\* llm_available of the AI detector
ExtraCount(method, rec) ==
    IF method = "llm"
    THEN \E i \in 1..Len(rec.anomaly_summary) :
             rec.anomaly_summary[i].part = "LLM: "
    ELSE total_anomalies(rec) > 0

\* the loop of ClassicAnomalyDetector.analyze_batch_metrics and of
\* LLMAnomalyDetector.analyze_batch_metrics over the rest of the query
RECURSIVE BatchLoop(_, _, _, _, _, _)
\* the end of one round of the loop: a is what analyze_metrics did to the
\* snapshot and the table, and what it returned
BatchCounted(method, queue, ms, inp, acc, a) ==
    BatchLoop(method, Tail(queue), [ms EXCEPT ![Head(queue)] = a.m],
              a.rows, inp,
              [results |->
                   CountOne(acc.results, a.ret, FALSE,
                            a.ret # <<>>
                            /\ ExtraCount(method, a.ret[1])),
               attempted |-> Append(acc.attempted, Head(queue)),
               calls |-> acc.calls \o a.calls])

\* one round per snapshot of the query; the analysis of the round is
\* computed once and handed to the rest of the round
BatchLoop(method, queue, ms, rows, inp, acc) ==
    IF queue = <<>> THEN [ms |-> ms, rows |-> rows, acc |-> acc]
    ELSE CHOOSE b \in
             {BatchCounted(method, queue, ms, inp, acc, a) :
                  a \in {ServiceAnalyze(method, ms[Head(queue)], rows,
                                        Head(queue), azure_client,
                                        inp[Head(queue)].r1,
                                        inp[Head(queue)].r2,
                                        inp[Head(queue)].r3,
                                        inp[Head(queue)].fail)}} : TRUE

\* analyze_batch_metrics of the detector the service selected
analyze_batch_metrics(method, queue, ms, rows, inp) ==
    BatchLoop(method, queue, ms, rows, inp,
              [results |-> [total |-> Len(queue), analyzed |-> 0,
                            errors |-> 0, extra |-> 0],
               attempted |-> <<>>, calls |-> <<>>])

\* what may happen to one snapshot of a batch
BatchInputs(method) ==
    [fail : IF method = "llm" THEN {"none", "save"}
            ELSE {"none", "compute", "save"},
     r1 : IF method = "llm"
          THEN {None,
                DetectionReply({"cpu", "latency", "services"}, {6},
                               {FALSE}, {})}
          ELSE {None},
     r2 : {None}, r3 : {None}]

\* AnomalyAnalysisView._analyze_batch_metrics
AnalyzeBatch(method, inp) ==
    LET unanalyzed_metrics == get_unanalyzed_metrics(metrics)
    IN  /\ IF unanalyzed_metrics = <<>>
           THEN /\ last' = [op |-> "analyze_batch", method |-> method,
                            response |-> "no_metrics_to_analyze",
                            selected |-> <<>>, attempted |-> <<>>,
                            results |-> [total |-> 0, analyzed |-> 0,
                                         errors |-> 0, extra |-> 0],
                            calls |-> <<>>]
                /\ UNCHANGED <<metrics, detections>>
           ELSE \E b \in {analyze_batch_metrics(method, unanalyzed_metrics,
                                                 metrics, detections, inp)} :
                    /\ metrics' = b.ms
                    /\ detections' = b.rows
                    /\ last' = [op |-> "analyze_batch", method |-> method,
                                response |-> "analysis_completed",
                                selected |-> unanalyzed_metrics,
                                attempted |-> b.acc.attempted,
                                results |-> b.acc.results,
                                calls |-> b.acc.calls]
        /\ UNCHANGED <<reports, azure_client, azure_service>>

(***************************************************************************)
(* recommendations/services.py: generate_batch_reports                     *)
(***************************************************************************)
\* MetricsFilters.get_metrics_without_reports
get_metrics_without_reports(ms, rrows) ==
    InOrder({sid \in Snapshots :
                /\ ms[sid].analysis_completed
                /\ ReportRowsOf(rrows, sid) = {}})

\* the loop without its except branch: an exception is not counted
CountReport_Uncaught(results, ret, raised) ==
    IF raised THEN results
    ELSE IF ret # <<>> THEN [results EXCEPT !.generated = @ + 1]
    ELSE [results EXCEPT !.errors = @ + 1]

\* one turn of the loop of generate_batch_reports
CountReport(results, ret, raised) ==
    IF ~raised /\ ret # <<>>
    THEN [results EXCEPT !.generated = @ + 1]
    ELSE [results EXCEPT !.errors = @ + 1]

\* the loop of RecommendationService.generate_batch_reports; inp[sid] is
\* "raise" when generate_recommendation_report itself raises
RECURSIVE ReportLoop(_, _, _, _, _, _, _, _)
\* the end of one round of the loop: g is what the round did to the table
\* and returned
ReportCounted(method, queue, ms, drows, available, inp, acc, g) ==
    ReportLoop(method, Tail(queue), ms, drows, g.rows, available, inp,
        [results |-> CountReport(acc.results, g.ret,
                                 inp[Head(queue)].fail = "raise"),
         attempted |-> Append(acc.attempted, Head(queue))])

ReportLoop(method, queue, ms, drows, rrows, available, inp, acc) ==
    IF queue = <<>> THEN [rows |-> rrows, acc |-> acc]
    ELSE ReportCounted(method, queue, ms, drows, available, inp, acc,
             IF inp[Head(queue)].fail = "raise"
             THEN [rows |-> rrows, ret |-> <<>>]
             ELSE generate_report(method, ms[Head(queue)], drows, rrows,
                                  Head(queue), available, inp[Head(queue)]))

generate_batch_reports(method, queue, ms, drows, rrows, available, inp) ==
    ReportLoop(method, queue, ms, drows, rrows, available, inp,
               [results |-> [total |-> Len(queue), generated |-> 0,
                             errors |-> 0, skipped |-> 0],
                attempted |-> <<>>])

ReportFailPoints == {"none", "upsert", "raise"}

\* a complete primary response
FullResponse ==
    Content(<<"{", "m_summary", "m_analysis", "m_recs", "m_high",
              "m_impact", "m_timeframe", "}">>)

\* what may happen to one snapshot of a batch of reports
ReportInputs(method) ==
    [fail : ReportFailPoints, r1 : {ApiError}, r2 : {ApiError}]
    \cup (IF method = "llm"
          THEN {[fail |-> "none", r1 |-> FullResponse, r2 |-> ApiError]}
          ELSE {})

\* RecommendationGenerationView._generate_batch_recommendations
GenerateBatch(method, inp) ==
    LET metrics_without_reports ==
            get_metrics_without_reports(metrics, reports)
    IN  /\ IF metrics_without_reports = <<>>
           THEN /\ last' = [op |-> "generate_batch", method |-> method,
                            response |-> "no_metrics_for_recommendations",
                            selected |-> <<>>, attempted |-> <<>>,
                            results |-> [total |-> 0, generated |-> 0,
                                         errors |-> 0, skipped |-> 0]]
                /\ UNCHANGED reports
           ELSE \E b \in {generate_batch_reports(method,
                             metrics_without_reports, metrics, detections,
                             reports, azure_service, inp)} :
                    /\ reports' = b.rows
                    /\ last' = [op |-> "generate_batch", method |-> method,
                                response |-> "generation_completed",
                                selected |-> metrics_without_reports,
                                attempted |-> b.acc.attempted,
                                results |-> b.acc.results]
        /\ UNCHANGED <<metrics, detections, azure_client, azure_service>>

(***************************************************************************)
(* recommendations/views.py: _generate_single_recommendation               *)
(***************************************************************************)
\* the report of a snapshot, and the table without it
ReportOf(rows, sid) == rows[CHOOSE i \in ReportRowsOf(rows, sid) : TRUE]

DeleteReport(rows, sid) ==
    RemoveAt(rows, CHOOSE i \in ReportRowsOf(rows, sid) : TRUE)

\* a variant that does not look at analysis_completed
SingleRefusal_Unguarded(sid, method, inp) ==
    IF ReportRowsOf(reports, sid) = {} THEN ""
    ELSE IF ReportOf(reports, sid).generation_method = method
    THEN "report_already_exists"
    ELSE IF inp.fail = "delete" THEN "internal_error"
    ELSE ""

\* the answer of the view when it generates nothing: the snapshot is not
\* analysed, its report was made by the same strategy, or the deletion of
\* the report of the other strategy raises (inp.fail = "delete"); "" when
\* the view goes on to generate
SingleRefusal(sid, method, inp) ==
    IF ~metrics[sid].analysis_completed THEN "metrics_not_analyzed"
    ELSE IF ReportRowsOf(reports, sid) = {} THEN ""
    ELSE IF ReportOf(reports, sid).generation_method = method
    THEN "report_already_exists"
    ELSE IF inp.fail = "delete" THEN "internal_error"
    ELSE ""

\* the answer of the view after generate_recommendation_report returned g
SingleAnswer(sid, method, inp, response, g) ==
    [op |-> "generate_single", sid |-> sid, method |-> method,
     response |-> response, fail |-> inp.fail, available |-> azure_service,
     ret |-> g.ret, data |-> g.data]

SingleGenerated(sid, method, inp, g) ==
    /\ reports' = g.rows
    /\ last' = SingleAnswer(sid, method, inp,
                            IF g.ret # <<>> THEN "generation_success"
                            ELSE IF method = "llm" THEN "llm_not_configured"
                            ELSE "generation_failed", g)

\* RecommendationGenerationView._generate_single_recommendation
GenerateSingle(sid, method, inp) ==
    /\ IF SingleRefusal(sid, method, inp) # ""
       THEN /\ last' = SingleAnswer(sid, method, inp,
                           SingleRefusal(sid, method, inp),
                           [ret |-> IF SingleRefusal(sid, method, inp)
                                       = "report_already_exists"
                                    THEN <<ReportOf(reports, sid)>>
                                    ELSE <<>>,
                            data |-> EmptyDict])
            /\ UNCHANGED reports
       ELSE SingleGenerated(sid, method, inp,
                generate_report(method, metrics[sid], detections,
                    IF ReportRowsOf(reports, sid) # {}
                    THEN DeleteReport(reports, sid) ELSE reports,
                    sid, azure_service, inp))
    /\ UNCHANGED <<metrics, detections, azure_client, azure_service>>

(***************************************************************************)
(* Specification                                                           *)
(***************************************************************************)
Methods == {"classic", "llm"}

\* the snapshots the ingestion layer stored, not analysed yet
Stored == <<Overloaded, Healthy, CpuOnly>>

Init ==
    /\ metrics = [sid \in Snapshots |->
                     Stored[((sid - 1) % Len(Stored)) + 1]
                     @@ [is_anomalous |-> FALSE,
                         analysis_completed |-> FALSE]]
    /\ detections = <<>>
    /\ reports = <<>>
    /\ azure_client \in BOOLEAN
    /\ azure_service \in BOOLEAN
    /\ azure_client => azure_service
    /\ last = [op |-> "init"]

\* the analysis requests never use the shared service: its client is taken
\* to be configured as the client of the analysis engine is
InitAnalysis == Init /\ azure_service = azure_client

AnalyzeSingleStep ==
    \E sid \in Snapshots, method \in Methods, fail \in ViewFailPoints :
        \E r1 \in IF method = "llm" THEN DetectionReplies ELSE {None},
           r2 \in SeverityReplies, r3 \in CorrelationReplies :
            AnalyzeSingle(sid, method, fail, r1, r2, r3)

\* a single analysis under the AI strategy, every write succeeding
AIAnalyzeStep ==
    \E sid \in Snapshots, r1 \in AIDetectionReplies,
       r2 \in AISeverityReplies, r3 \in AICorrelationReplies :
        AnalyzeSingle(sid, "llm", "none", r1, r2, r3)

AnalyzeBatchStep ==
    \E method \in Methods :
        \E inp \in [{sid \in Snapshots : ~metrics[sid].analysis_completed}
                        -> BatchInputs(method)] :
            AnalyzeBatch(method, inp)

GenerateBatchStep ==
    \E method \in Methods :
        \E inp \in [{sid \in Snapshots :
                         /\ metrics[sid].analysis_completed
                         /\ ReportRowsOf(reports, sid) = {}}
                        -> ReportInputs(method)] :
            GenerateBatch(method, inp)

\* the replies drawn when detect_anomalies alone is exercised
BaseCorrelation(n) == [pair |-> <<"base">>, explanation |-> n]

MergeDetectionReplies ==
    {None, JsonList, Dict(EmptyDict)}
    \cup {DetectionReply(k, s, c, corr) :
              k \in {{}, {"cpu", "services"}},
              s \in {{}, {6}, {11}},
              c \in {{}, {TRUE}},
              corr \in {{}, {<<BaseCorrelation(1)>>},
                        {<<BaseCorrelation(1), BaseCorrelation(2)>>}}}

MergeSeverityReplies ==
    {None, JsonList, Dict(EmptyDict)}
    \cup {SeverityReply(s, r) : s \in {{}, {-1}, {6}, {9}},
                                r \in {{}, {TRUE}}}

MergeCorrelationReplies ==
    {None, JsonList, Dict(EmptyDict)}
    \cup {CorrelationReply(n) : n \in 0..MaxStrongCorrelations}

\* one call of LLMAnomalyDetector.detect_anomalies on the replies that wait
\* in last
DetectStep ==
    /\ last.op = "replies"
    /\ LET d == LLMDetect(azure_client, last.r1, last.r2, last.r3)
       IN  last' = [op |-> "detect", r1 |-> last.r1, r2 |-> last.r2,
                    r3 |-> last.r3, result |-> d.result, calls |-> d.calls]
    /\ UNCHANGED <<metrics, detections, reports, azure_client, azure_service>>

\* the monitored values on both sides of each default threshold, under
\* four service mappings
ThresholdSnapshots ==
    {[cpu_usage |-> c, memory_usage |-> me, latency_ms |-> l,
      disk_usage |-> d, io_wait |-> io, error_rate |-> e,
      temperature_celsius |-> t, power_consumption_watts |-> pw,
      service_status |-> st, is_anomalous |-> FALSE,
      analysis_completed |-> FALSE] :
        c \in {79, 80, 81, 99}, me \in {84, 85, 86}, l \in {499, 500, 501},
        d \in {89, 90, 91}, io \in {19, 20, 21}, e \in {4, 5, 6, 50},
        t \in {74, 75, 76}, pw \in {399, 400, 401},
        st \in {("database" :> "online" @@ "cache" :> "online"),
                ("database" :> "online" @@ "cache" :> "error"),
                ("database" :> "maintenance" @@ "cache" :> "online"),
                EmptyDict}}

\* ClassicAnomalyDetector.analyze_metrics on the snapshot that waits in
\* last, and whatever the storage does
ThresholdStep ==
    /\ last.op = "snapshot"
    /\ \E fail \in {"none", "compute", "create", "save"} :
           \E a \in {ClassicAnalyze(last.m, <<>>, 1, fail)} :
               last' = [op |-> "threshold", m |-> last.m, fail |-> fail,
                        anomalies |-> ClassicDetect(last.m),
                        severity_score |->
                            calculate_severity_score(ClassicDetect(last.m)),
                        summary |->
                            generate_summary(ClassicDetect(last.m), last.m),
                        after |-> a.m, ret |-> a.ret]
    /\ UNCHANGED <<metrics, detections, reports, azure_client, azure_service>>

InitThreshold ==
    /\ metrics = [sid \in Snapshots |->
                     Stored[((sid - 1) % Len(Stored)) + 1]
                     @@ [is_anomalous |-> FALSE,
                         analysis_completed |-> FALSE]]
    /\ detections = <<>>
    /\ reports = <<>>
    /\ azure_client = FALSE
    /\ azure_service = FALSE
    /\ last \in [op : {"snapshot"}, m : ThresholdSnapshots]

SpecThreshold == InitThreshold /\ [][ThresholdStep]_vars

\* what the completion service may do with the primary request
PrimaryReplies ==
    {ApiError, FullResponse,
     Content(<<"prose", "nl", "{", "m_low", "m_recs", "}">>),
     Content(<<"{", "m_urgent", "m_recs_text", "}">>)}

\* what it may do with the focused request
FocusedReplies == {ApiError, Content(<<"{", "m_recs", "}">>)}

\* the snapshot of a stored profile before any analysis
Fresh(p) ==
    Stored[p] @@ [is_anomalous |-> FALSE, analysis_completed |-> FALSE]

\* what the AI entry points return, as the caller sees it: the same request
\* once with the completion service unreachable and nothing else going
\* wrong, and once with the service reachable and the processing failing at
\* last.cause ("call": the completion call fails)
OutcomeStep ==
    /\ last.op = "request"
    /\ last' =
          IF last.entry = "analyze"
          THEN [op |-> "outcome", entry |-> last.entry, cause |-> last.cause,
                profile |-> last.profile, reply |-> last.reply,
                unavailable |->
                    LLMAnalyze(Fresh(last.profile), <<>>, 1, FALSE,
                               last.reply, None, None, "none").ret,
                failed |->
                    LLMAnalyze(Fresh(last.profile), <<>>, 1, TRUE,
                               IF last.cause = "call" THEN None
                               ELSE last.reply,
                               None, None,
                               IF last.cause = "call" THEN "none"
                               ELSE last.cause).ret]
          ELSE [op |-> "outcome", entry |-> last.entry, cause |-> last.cause,
                profile |-> last.profile, reply |-> last.reply,
                unavailable |->
                    generate_report("llm", Fresh(last.profile), <<>>, <<>>,
                                    1, FALSE,
                                    [fail |-> "none", r1 |-> last.reply,
                                     r2 |-> ApiError]).ret,
                failed |->
                    generate_report("llm", Fresh(last.profile), <<>>, <<>>,
                                    1, TRUE,
                                    [fail |-> last.cause, r1 |-> last.reply,
                                     r2 |-> ApiError]).ret]
    /\ UNCHANGED <<metrics, detections, reports, azure_client, azure_service>>

InitOutcome ==
    /\ metrics = [sid \in Snapshots |->
                     Stored[((sid - 1) % Len(Stored)) + 1]
                     @@ [is_anomalous |-> FALSE,
                         analysis_completed |-> FALSE]]
    /\ detections = <<>>
    /\ reports = <<>>
    /\ azure_client = TRUE
    /\ azure_service = TRUE
    /\ \/ last \in [op : {"request"}, entry : {"analyze"},
                     profile : 1..Len(Stored),
                     cause : {"call", "compute", "create", "save"},
                     reply : AIDetectionReplies \ {None, Dict(EmptyDict)}]
       \/ last \in [op : {"request"}, entry : {"generate_report"},
                     profile : 1..Len(Stored),
                     cause : {"compute", "upsert", "llm"},
                     reply : PrimaryReplies]

SpecOutcome == InitOutcome /\ [][OutcomeStep]_vars

\* snapshots on both sides of the limit of each of the five areas
AreaSnapshots ==
    {[Healthy EXCEPT !.cpu_usage = c, !.memory_usage = me,
                     !.disk_usage = d, !.latency_ms = l,
                     !.service_status = st] :
        c \in {85, 86}, me \in {85, 86}, d \in {85, 86}, l \in {500, 501},
        st \in {("database" :> "online"), ("database" :> "degraded")}}

\* what the completion service may do with the focused request of the
\* enrichment
EnrichReplies ==
    FocusedReplies
    \cup {Content(<<"{", "m_recs_one", "}">>),
          Content(<<"{", "m_recs_text", "}">>),
          Content(<<"{", "m_a", "}">>), Content(<<"[", "1", "]">>)}

\* LLMRecommendationGenerator.generate_recommendations on the snapshot that
\* waits in last; primary and focused are what the engine answers to the
\* primary request and to the focused one
EnrichStep ==
    /\ last.op = "request"
    /\ last' = [op |-> "enrich", m |-> last.m, available |-> last.available,
                r2 |-> last.r2,
                primary |-> engine_generate_recommendations(
                                last.available, last.r1, 1),
                calls |-> focused_calls(last.m, last.available),
                focused |->
                    IF focused_calls(last.m, last.available) = <<>>
                    THEN None
                    ELSE engine_generate_focused_recommendations(
                             last.available, last.r2,
                             focused_calls(last.m, last.available)[1]),
                payload |-> llm_generate_recommendations(
                                last.m, <<>>, 1, last.available, last.r1,
                                last.r2, FALSE)]
    /\ UNCHANGED <<metrics, detections, reports, azure_client, azure_service>>

InitEnrich ==
    /\ metrics = [sid \in Snapshots |->
                     Stored[((sid - 1) % Len(Stored)) + 1]
                     @@ [is_anomalous |-> FALSE,
                         analysis_completed |-> FALSE]]
    /\ detections = <<>>
    /\ reports = <<>>
    /\ azure_client = FALSE
    /\ azure_service \in BOOLEAN
    /\ last \in [op : {"request"}, m : AreaSnapshots,
                  available : {azure_service}, r1 : PrimaryReplies,
                  r2 : EnrichReplies]

SpecEnrich == InitEnrich /\ [][EnrichStep]_vars

\* what may happen to a single report request
SingleReportInputs(method) ==
    IF method = "llm"
    THEN [fail : {"none"}, r1 : PrimaryReplies, r2 : FocusedReplies]
         \cup [fail : {"compute", "upsert", "llm", "delete"},
               r1 : {FullResponse}, r2 : {ApiError}]
    ELSE [fail : {"none", "compute", "upsert", "delete"},
          r1 : {ApiError}, r2 : {ApiError}]

GenerateSingleStep ==
    \E sid \in Snapshots, method \in Methods :
        \E inp \in SingleReportInputs(method) :
            GenerateSingle(sid, method, inp)

Next ==
    \/ AnalyzeSingleStep
    \/ AnalyzeBatchStep
    \/ GenerateSingleStep
    \/ GenerateBatchStep

Spec == Init /\ [][Next]_vars

\* single requests only
SpecSingle == InitAnalysis /\ [][AnalyzeSingleStep]_vars

(***************************************************************************)
(* ingestion/views.py: the analysis and the report asked for with the      *)
(* ingestion of a snapshot (auto_analyze=true).  Both services are built   *)
(* with their default strategy, "classic".                                 *)
(***************************************************************************)
\* the answer of _perform_auto_analysis once the analysis returned a and
\* the report generation g
AutoAnswer(sid, a, g, raised) ==
    [op |-> "auto_analysis", sid |-> sid,
     response |-> IF a.ret = <<>> THEN "not_analyzed"
                  ELSE IF raised THEN "error"
                  ELSE IF g.ret # <<>> THEN "recommendations_generated"
                  ELSE "recommendations_not_generated",
     ret |-> a.ret, report |-> g.ret]

\* the second half of _perform_auto_analysis: the report is asked for only
\* "if anomaly_detection"; inp.fail = "raise" is generate_recommendation_
\* report raising, which the handler catches
AutoReport(sid, a, inp) ==
    \E g \in {IF a.ret = <<>> \/ inp.fail = "raise"
               THEN [rows |-> reports, ret |-> <<>>]
               ELSE generate_report("classic", a.m, a.rows, reports, sid,
                                    azure_service, inp)} :
        /\ metrics' = [metrics EXCEPT ![sid] = a.m]
        /\ detections' = a.rows
        /\ reports' = g.rows
        /\ last' = AutoAnswer(sid, a, g, inp.fail = "raise")

\* DataIngestionView._perform_auto_analysis for the snapshot just stored:
\* it has no result, no report and was never analysed
AutoAnalysis(sid, fail, inp) ==
    /\ ~metrics[sid].analysis_completed
    /\ ~HasDetection(detections, sid)
    /\ ReportRowsOf(reports, sid) = {}
    /\ AutoReport(sid, ServiceAnalyze("classic", metrics[sid], detections,
                                      sid, azure_client, None, None, None,
                                      fail), inp)
    /\ UNCHANGED <<azure_client, azure_service>>

\* the snapshots stored with auto_analyze=true
AutoSnapshots == {NumSnapshots}

AutoAnalysisStep ==
    \E sid \in AutoSnapshots, fail \in FailPoints :
        \E inp \in ReportInputs("classic") :
            AutoAnalysis(sid, fail, inp)

\* the snapshots the interleaved requests are made for; the others stand by
FrameSnapshots == {1}

\* a single analysis request for one of these snapshots
FrameAnalyzeStep ==
    \E sid \in FrameSnapshots, method \in Methods, fail \in ViewFailPoints :
        \E r1 \in IF method = "llm" THEN DetectionReplies ELSE {None},
           r2 \in SeverityReplies, r3 \in CorrelationReplies :
            AnalyzeSingle(sid, method, fail, r1, r2, r3)

\* a single report request for one of these snapshots
FrameGenerateStep ==
    \E sid \in FrameSnapshots, method \in Methods :
        \E inp \in SingleReportInputs(method) :
            GenerateSingle(sid, method, inp)

\* single analysis and single report requests, interleaved
SpecFrame == InitAnalysis /\ [][FrameAnalyzeStep \/ FrameGenerateStep]_vars

\* the requests that generate reports, with the single analysis requests
\* that make a snapshot eligible
SpecHttp == InitAnalysis /\ [][FrameAnalyzeStep \/ AutoAnalysisStep \/ FrameGenerateStep \/ GenerateBatchStep]_vars

\* batch requests only
SpecBatch == Init /\ [][AnalyzeBatchStep \/ GenerateBatchStep]_vars

\* what may happen to one snapshot of a detection batch that is repeated:
\* under the AI strategy the completion call fails or answers, under the
\* threshold strategy the computation or the last write may fail
DrainInputs(method) ==
    IF method = "llm"
    THEN {i \in BatchInputs(method) : i.fail = "none"}
    ELSE BatchInputs(method)

DrainStep ==
    \E method \in Methods :
        \E inp \in [{sid \in Snapshots : ~metrics[sid].analysis_completed}
                        -> DrainInputs(method)] :
            AnalyzeBatch(method, inp)

\* detection batches that keep being requested as long as one of them
\* changes something: the client of the view sends them, nothing in the
\* program schedules them
SpecDrain == Init /\ [][DrainStep]_vars /\ WF_vars(DrainStep)

\* the AI strategy alone
SpecAI == InitAnalysis /\ [][AIAnalyzeStep]_vars

\* the AI detection alone, on every combination of three replies
InitDetect ==
    /\ metrics = [sid \in Snapshots |->
                     Stored[((sid - 1) % Len(Stored)) + 1]
                     @@ [is_anomalous |-> FALSE,
                         analysis_completed |-> FALSE]]
    /\ detections = <<>>
    /\ reports = <<>>
    /\ azure_client \in BOOLEAN
    /\ azure_service = azure_client
    /\ last \in [op : {"replies"}, r1 : MergeDetectionReplies,
                  r2 : MergeSeverityReplies, r3 : MergeCorrelationReplies]

SpecDetect == InitDetect /\ [][DetectStep]_vars

\* the statuses the ingestion layer accepts (ingestion/filters.py:272)
valid_statuses == {"online", "offline", "degraded", "error", "maintenance"}

\* the service mappings a snapshot may carry: none, one or two services
ServiceMaps ==
    {EmptyDict}
    \cup {("database" :> a) : a \in valid_statuses}
    \cup {("database" :> a @@ "cache" :> b) :
              a \in valid_statuses, b \in valid_statuses}

\* the threshold detector and the rule-based generator on one snapshot,
\* which waits in last
ServiceStep ==
    /\ last.op = "snapshot"
    /\ last' = [op |-> "classic", m |-> last.m,
                anomalies |-> ClassicDetect(last.m),
                degraded |-> has_degraded_services(last.m),
                payload |-> classic_generate_recommendations(last.m, <<>>)]
    /\ UNCHANGED <<metrics, detections, reports, azure_client, azure_service>>

\* every service mapping under the three stored profiles
InitServices ==
    /\ metrics = [sid \in Snapshots |->
                     Stored[((sid - 1) % Len(Stored)) + 1]
                     @@ [is_anomalous |-> FALSE,
                         analysis_completed |-> FALSE]]
    /\ detections = <<>>
    /\ reports = <<>>
    /\ azure_client \in BOOLEAN
    /\ azure_service = azure_client
    /\ last \in [op : {"snapshot"},
                  m : {[Stored[i] EXCEPT !.service_status = st] :
                           i \in 1..Len(Stored), st \in ServiceMaps}]

SpecServices == InitServices /\ [][ServiceStep]_vars

\* the values on both sides of the thresholds of the detector and of the
\* high tier of the rules, where the two differ
CrossSnapshots ==
    {[Healthy EXCEPT !.cpu_usage = c, !.memory_usage = me,
                     !.disk_usage = d, !.latency_ms = l,
                     !.temperature_celsius = t, !.error_rate = e,
                     !.service_status = st] :
        c \in {79, 80, 81, 96},
        me \in {85, 86},
        d \in {84, 90, 91},
        l \in {299, 500, 501},
        t \in {69, 75, 76},
        e \in {1, 5, 6},
        st \in {EmptyDict, ("database" :> "maintenance"),
                ("database" :> "online" @@ "cache" :> "degraded")}}

\* the threshold detector and the rule-based generator on each of them
InitCross ==
    /\ metrics = [sid \in Snapshots |->
                     Stored[((sid - 1) % Len(Stored)) + 1]
                     @@ [is_anomalous |-> FALSE,
                         analysis_completed |-> FALSE]]
    /\ detections = <<>>
    /\ reports = <<>>
    /\ azure_client \in BOOLEAN
    /\ azure_service = azure_client
    /\ last \in [op : {"snapshot"}, m : CrossSnapshots]

SpecCross == InitCross /\ [][ServiceStep]_vars

\* the values of the rule domains on both sides of each tier
RuleSnapshots ==
    {[Healthy EXCEPT !.cpu_usage = c, !.memory_usage = me,
                     !.disk_usage = d, !.latency_ms = l,
                     !.temperature_celsius = t, !.error_rate = e,
                     !.service_status = st] :
        c \in {50, 79, 80, 82, 94, 95, 96},
        me \in {84, 85, 94, 95},
        d \in {84, 85, 94, 95},
        l \in {299, 300, 999, 1000},
        t \in {69, 70, 79, 80},
        e \in {1, 2, 6},
        st \in {("database" :> "online"), ("database" :> "maintenance"),
                ("database" :> "online" @@ "cache" :> "offline")}}

\* ClassicRecommendationGenerator.generate_recommendations on the snapshot
\* that waits in last
RulesStep ==
    /\ last.op = "snapshot"
    /\ last' = [op |-> "rules", m |-> last.m,
                payload |-> classic_generate_recommendations(last.m, <<>>)]
    /\ UNCHANGED <<metrics, detections, reports, azure_client, azure_service>>

InitRules ==
    /\ metrics = [sid \in Snapshots |->
                     Stored[((sid - 1) % Len(Stored)) + 1]
                     @@ [is_anomalous |-> FALSE,
                         analysis_completed |-> FALSE]]
    /\ detections = <<>>
    /\ reports = <<>>
    /\ azure_client \in BOOLEAN
    /\ azure_service = azure_client
    /\ last \in [op : {"snapshot"}, m : RuleSnapshots]

SpecRules == InitRules /\ [][RulesStep]_vars

\* the response texts the completion service may send: what precedes the
\* body, the body, and what follows it
TextPrefixes ==
    {<<>>, <<"fence_json", "nl">>, <<"fence", "nl">>, <<"json", "nl">>,
     <<"prose", "nl">>, <<"nl">>}

TextBodies ==
    {<<"{", "m_summary", "m_recs", "m_high", "}">>,
     <<"{", "m_low", "m_recs", "}">>,
     <<"{", "m_a", "}">>,
     <<"{", "}">>,
     <<"[", "1", "]">>,
     <<"[", "]">>,
     <<"[", "{", "m_a", "}", "]">>,
     <<"null">>,
     <<"1">>,
     <<"{", "m_summary">>,
     <<"}", "prose", "{">>,
     <<"{", "m_a", "}", "prose", "{", "m_a", "}">>,
     <<"{", "prose", "}">>,
     <<"prose">>,
     <<>>}

TextSuffixes == {<<>>, <<"nl", "fence">>, <<"nl", "prose">>, <<"nl">>}

RawTexts ==
    {pre \o body \o suf :
        pre \in TextPrefixes, body \in TextBodies, suf \in TextSuffixes}

\* the text that waits in last goes through the parse of the robustness
\* layer, and as the content of a reply through the two call paths
ParseStep ==
    /\ last.op = "text"
    /\ last' = [op |-> "parse", text |-> last.text,
                parsed |-> parse_json_response(last.text),
                recommendation |->
                    call_json_completion(azure_service, Content(last.text)),
                detection |->
                    call_llm_analysis_text(azure_client,
                                           Content(last.text))]
    /\ UNCHANGED <<metrics, detections, reports, azure_client, azure_service>>

InitParse ==
    /\ metrics = [sid \in Snapshots |->
                     Stored[((sid - 1) % Len(Stored)) + 1]
                     @@ [is_anomalous |-> FALSE,
                         analysis_completed |-> FALSE]]
    /\ detections = <<>>
    /\ reports = <<>>
    /\ azure_client \in BOOLEAN
    /\ azure_service = azure_client
    /\ last \in [op : {"text"}, text : RawTexts]

SpecParse == InitParse /\ [][ParseStep]_vars

\* the strategy names a caller may give a selector service
MethodNames == {"classic", "llm", "rules"}

\* a selector service is built under the configuration that waits in last
\* and asked for its method info
DescribeStep ==
    /\ last.op = "config"
    /\ \E component \in {"analysis", "recommendations"},
          method \in MethodNames :
           LET detection == azure_client
               recommendation == azure_service
           IN  last' = [op |-> "describe", cfg |-> last.cfg,
                        ctor_raises |-> last.ctor_raises,
                        component |-> component, method |-> method,
                        detection_available |-> detection,
                        recommendation_available |-> recommendation,
                        info |-> IF component = "analysis"
                                 THEN analysis_get_method_info(method,
                                                               detection)
                                 ELSE recommendation_get_method_info(
                                          method, recommendation)]
    /\ UNCHANGED <<metrics, detections, reports, azure_client, azure_service>>

InitConfig ==
    /\ metrics = [sid \in Snapshots |->
                     Stored[((sid - 1) % Len(Stored)) + 1]
                     @@ [is_anomalous |-> FALSE,
                         analysis_completed |-> FALSE]]
    /\ detections = <<>>
    /\ reports = <<>>
    /\ last \in [op : {"config"}, cfg : Configurations,
                  ctor_raises : BOOLEAN]
    /\ azure_client = initialize_azure_client(last.cfg, last.ctor_raises)
    /\ azure_service = initialize_client(last.cfg, last.ctor_raises)

SpecConfig == InitConfig /\ [][DescribeStep]_vars

\* the snapshots after a threshold analysis of all of them but the last
InitReport ==
    /\ metrics = [sid \in Snapshots |->
                     LET m0 == Stored[((sid - 1) % Len(Stored)) + 1]
                               @@ [is_anomalous |-> FALSE,
                                   analysis_completed |-> FALSE]
                     IN  IF sid = NumSnapshots THEN m0
                         ELSE ClassicAnalyze(m0, <<>>, sid, "none").m]
    /\ detections = [sid \in 1..(NumSnapshots - 1) |->
                        ClassicAnalyze(Stored[((sid - 1) % Len(Stored)) + 1]
                                       @@ [is_anomalous |-> FALSE,
                                           analysis_completed |-> FALSE],
                                       <<>>, sid, "none").ret[1]]
    /\ reports = <<>>
    /\ azure_client \in BOOLEAN
    /\ azure_service \in BOOLEAN
    /\ azure_client => azure_service
    /\ last = [op |-> "init"]

\* single report requests only
SpecReport == InitReport /\ [][GenerateSingleStep]_vars

\* the request variants of the AI recommendation generator; the maintenance
\* plan exists in the engine only
Variants == {"primary", "focused", "capacity", "emergency", "maintenance"}

VariantReplies ==
    {ApiError, FullResponse, Content(<<"prose">>), Content(<<"[", "1", "]">>),
     Content(<<"{", "}">>), Content(<<"null">>)}

\* one request of a variant, which waits in last, on the first snapshot;
\* <<>> as answer is None
VariantStep ==
    /\ last.op = "request"
    /\ LET v == last.variant
           m == metrics[1]
           maintenance ==
               engine_generate_maintenance_plan(azure_service, last.reply,
                                                "dimanche 02:00")
           answer ==
               CASE v = "primary" ->
                        <<llm_generate_recommendations(
                              m, <<>>, 1, azure_service, last.reply,
                              ApiError, last.raises)>>
                 [] v = "focused" ->
                        <<generate_focused_recommendations(
                              "cpu", azure_service, last.reply,
                              last.raises)>>
                 [] v = "capacity" ->
                        <<generate_capacity_analysis(
                              30, azure_service, last.reply, last.raises)>>
                 [] v = "emergency" ->
                        <<generate_emergency_response(
                              "panne", azure_service, last.reply,
                              last.raises)>>
                 [] v = "maintenance" ->
                        IF last.raises \/ maintenance.kind # "dict"
                        THEN <<>>
                        ELSE <<maintenance.body>>
       IN  last' = [op |-> "variant", variant |-> v, reply |-> last.reply,
                    raises |-> last.raises, available |-> azure_service,
                    answer |-> answer]
    /\ UNCHANGED <<metrics, detections, reports, azure_client, azure_service>>

InitVariants ==
    /\ metrics = [sid \in Snapshots |->
                     Stored[((sid - 1) % Len(Stored)) + 1]
                     @@ [is_anomalous |-> FALSE,
                         analysis_completed |-> FALSE]]
    /\ detections = <<>>
    /\ reports = <<>>
    /\ azure_client \in BOOLEAN
    /\ azure_service \in BOOLEAN
    /\ azure_client => azure_service
    /\ last \in [op : {"request"}, variant : Variants,
                  reply : VariantReplies, raises : BOOLEAN]

SpecVariants == InitVariants /\ [][VariantStep]_vars

(***************************************************************************)
(* Properties                                                              *)
(***************************************************************************)
Positions(ops, x) == {i \in 1..Len(ops) : ops[i] = x}

\* every x of ops comes before every y of ops, and there is an x
Precedes(ops, x, y) ==
    /\ Positions(ops, x) # {}
    /\ \A i \in Positions(ops, x), j \in Positions(ops, y) : i < j

Flags(m) == <<m.is_anomalous, m.analysis_completed>>

\* the table and the flags of the snapshot at the moment the view calls the
\* service: after the deletion and the reset of a strategy switch
RowsAtCall(rows, sid, ops) ==
    IF Positions(ops, "delete") # {} THEN DeleteDetection(rows, sid)
    ELSE rows

FlagsAtCall(m, ops) ==
    IF Positions(ops, "delete") # {} THEN <<FALSE, FALSE>> ELSE Flags(m)

\* C1: through the single-snapshot view a snapshot never has two Anomaly
\* Results, and a step that replaces the result of one strategy by the
\* result of the other deleted the old row before it created the new one.
C1_StrategySwitch ==
    /\ [](\A sid \in Snapshots :
             Cardinality(RowsOf(detections, sid)) <= 1)
    /\ [][\A sid \in Snapshots :
             (/\ HasDetection(detections, sid)
              /\ HasDetection(detections', sid)
              /\ DetectionOf(detections', sid).analysis_method
                     # DetectionOf(detections, sid).analysis_method)
             => /\ last'.op = "analyze_single"
                /\ last'.sid = sid
                /\ last'.method
                       = DetectionOf(detections', sid).analysis_method
                /\ Precedes(last'.ops, "delete", "create")]_vars

\* C1 witness: a switch from one strategy to the other was carried out
C1_Witness ==
    /\ last.op = "analyze_single"
    /\ last.ops = <<"delete", "save", "create", "save">>
    /\ last.response = "analysis_success"
    /\ DetectionOf(detections, last.sid).analysis_method = last.method

\* C2: a snapshot has analysis_completed exactly when an Anomaly Result
\* exists for it, also after a write that failed behind one that succeeded.
C2_AtomicFlagsAndResult ==
    \A sid \in Snapshots :
        metrics[sid].analysis_completed <=> HasDetection(detections, sid)

\* C3: a single analysis requested with the strategy of the result the
\* snapshot already holds answers with that record, writes nothing and
\* issues no completion call.
C3_SameStrategyIdempotent ==
    [][(/\ last'.op = "analyze_single"
        /\ HasDetection(detections, last'.sid)
        /\ DetectionOf(detections, last'.sid).analysis_method
               = last'.method)
       => /\ last'.ret = <<DetectionOf(detections, last'.sid)>>
          /\ detections' = detections
          /\ metrics' = metrics
          /\ last'.calls = <<>>]_vars

\* C4: when analyze returns the failure value, the table holds what it
\* held when analyze was called and the two booleans of the snapshot are
\* what they were then.
C4_FailureLeavesNothing ==
    [][(/\ last'.op = "analyze_single"
        /\ last'.analyzed
        /\ last'.ret = <<>>)
       => /\ detections' = RowsAtCall(detections, last'.sid, last'.ops)
          /\ Flags(metrics'[last'.sid])
                = FlagsAtCall(metrics[last'.sid], last'.ops)]_vars

\* C7: an AI analysis whose detection call fails, or that finds no client,
\* detects nothing, returns no record, creates no row and leaves the two
\* booleans as they were at the call (false stays false).
C7_DetectionUnavailable ==
    [][(/\ last'.op = "analyze_single"
        /\ last'.analyzed
        /\ last'.method = "llm"
        /\ (~azure_client \/ last'.r1 = None))
       => /\ last'.analysis = None
          /\ last'.ret = <<>>
          /\ last'.response = "llm_not_configured"
          /\ Positions(last'.ops, "create") = {}
          /\ detections' = RowsAtCall(detections, last'.sid, last'.ops)
          /\ Flags(metrics'[last'.sid])
                = FlagsAtCall(metrics[last'.sid], last'.ops)
          /\ (Flags(metrics[last'.sid]) = <<FALSE, FALSE>>
                => Flags(metrics'[last'.sid]) = <<FALSE, FALSE>>)]_vars

\* C7 witness: with a client, the detection call failed on a snapshot that
\* was never analysed and nothing was written
C7_Witness ==
    /\ last.op = "analyze_single"
    /\ last.analyzed
    /\ last.method = "llm"
    /\ azure_client
    /\ last.r1 = None
    /\ last.calls = <<"anomaly_detection">>
    /\ last.ret = <<>>
    /\ ~HasDetection(detections, last.sid)
    /\ Flags(metrics[last.sid]) = <<FALSE, FALSE>>

\* C5: a detection batch and a report batch over N snapshots return
\* succeeded + failed = total = N and attempt every one of the N snapshots,
\* in order, whatever fails on the way.
C5_BatchCounters ==
    /\ last.op = "analyze_batch"
          => /\ last.results.analyzed + last.results.errors
                   = last.results.total
             /\ last.results.total = Len(last.selected)
             /\ last.attempted = last.selected
    /\ last.op = "generate_batch"
          => /\ last.results.generated + last.results.errors
                   = last.results.total
             /\ last.results.total = Len(last.selected)
             /\ last.attempted = last.selected

\* C5 witness: a report batch whose first snapshot failed and whose last
\* snapshot got its report
C5_Witness ==
    /\ last.op = "generate_batch"
    /\ Len(last.selected) >= 2
    /\ last.results.errors >= 1
    /\ last.results.generated >= 1
    /\ ReportRowsOf(reports, last.selected[1]) = {}
    /\ ReportRowsOf(reports, last.selected[Len(last.selected)]) # {}

\* C6: every persisted Anomaly Result has a severity score in [0,10] and is
\* critical exactly when the score is at least 7.
C6_SeverityRange ==
    \A i \in 1..Len(detections) :
        /\ detections[i].severity_score \in 0..10
        /\ is_critical(detections[i]) <=> detections[i].severity_score >= 7

AllCalls ==
    <<"anomaly_detection", "severity_assessment", "correlation_analysis">>

RiskKeys ==
    {"severity_justification", "immediate_risk", "cascade_risk",
     "business_impact", "time_to_failure"}

\* the severity score of a dictionary, {} when it has none
OptScore(d) ==
    IF "severity_score" \in DOMAIN d THEN {d["severity_score"]} ELSE {}

C9_SeverityOverride ==
    (last.op = "detect" /\ last.result.kind = "dict")
    => IF Truthy(last.r2)
       THEN /\ OptScore(last.result.body) = OptScore(last.r2.body)
            /\ RiskKeys \subseteq DOMAIN last.result.body
       ELSE OptScore(last.result.body) = OptScore(last.r1.body)

\* C9 amended: when call 2 returns a non-empty object its risk fields are
\* merged, and the merged severity score is the score of call 2 if the
\* object carries one; if it carries none, or call 2 returns nothing, the
\* merged score is the score of the detection call.
C9_SeverityOverrideIfProvided ==
    (last.op = "detect" /\ last.result.kind = "dict")
    => IF Truthy(last.r2)
       THEN /\ RiskKeys \subseteq DOMAIN last.result.body
            /\ OptScore(last.result.body)
                  = IF OptScore(last.r2.body) # {}
                    THEN OptScore(last.r2.body)
                    ELSE OptScore(last.r1.body)
       ELSE OptScore(last.result.body) = OptScore(last.r1.body)

\* C9 witness: call 2 revised the score of the detection call
C9_Witness ==
    /\ last.op = "detect"
    /\ last.result.kind = "dict"
    /\ OptScore(last.r1.body) = {6}
    /\ OptScore(last.r2.body) = {9}
    /\ OptScore(last.result.body) = {9}
    /\ last.result.body["immediate_risk"] = TRUE

\* C10: after a successful AI analysis the snapshot is anomalous exactly
\* when the merged analysis is critical or one of the nine mapped flags is
\* true, its analysis is completed, and the stored result is tagged 'llm'.
C10_AnomalousFlag ==
    (/\ last.op = "analyze_single"
     /\ last.method = "llm"
     /\ last.response = "analysis_success")
    => LET sid == last.sid
           merged == last.analysis.body
           row == DetectionOf(detections, sid)
       IN  /\ HasDetection(detections, sid)
           /\ last.ret = <<row>>
           /\ row.analysis_method = "llm"
           /\ row.flags =
                 {LLMKeyField[k] :
                     k \in Get(merged, "anomalies_detected", {})
                            \cap DOMAIN LLMKeyField}
           /\ metrics[sid].analysis_completed
           /\ metrics[sid].is_anomalous
                 = (\/ Get(merged, "is_critical", FALSE)
                    \/ row.flags # {})

\* C10 witness: no mapped flag is true but the analysis is critical, and the
\* snapshot is marked anomalous
C10_Witness ==
    /\ last.op = "analyze_single"
    /\ last.method = "llm"
    /\ last.response = "analysis_success"
    /\ DetectionOf(detections, last.sid).flags = {}
    /\ Get(last.analysis.body, "is_critical", FALSE)
    /\ metrics[last.sid].is_anomalous
    /\ metrics[last.sid].analysis_completed

\* the actions of a payload
Actions(payload) == payload.recommendations.l

\* the set of the actions of a payload
ActionSet(payload) == {Actions(payload)[i] : i \in 1..Len(Actions(payload))}

\* the rank of a priority under low < medium < high < critical
Rank(p) == CASE p = "low" -> 1 [] p = "medium" -> 2 [] p = "high" -> 3
             [] p = "critical" -> 4 [] OTHER -> 0

\* C18 (as stated): the service flag of the threshold detector and the
\* derived service-degradation fact of the snapshot are true if and only if
\* at least one service has a status other than online.
C18_ServiceFlag ==
    last.op = "classic" =>
        LET st == last.m.service_status
            nonOnline == \E s \in DOMAIN st : st[s] # "online"
        IN  /\ ("service_anomaly" \in last.anomalies) <=> nonOnline
            /\ last.degraded <=> nonOnline

\* C18 (amended): the service flag and the derived fact are true if and only
\* if at least one service is neither online nor in maintenance, that is,
\* is degraded, offline or in error.
C18_ServiceFlagDegraded ==
    last.op = "classic" =>
        LET st == last.m.service_status
            degraded == \E s \in DOMAIN st :
                            st[s] \notin {"online", "maintenance"}
        IN  /\ ("service_anomaly" \in last.anomalies) <=> degraded
            /\ last.degraded <=> degraded

\* a mapping with a service in error beside one in maintenance raised the
\* flag, and a mapping that is online and in maintenance only did not
C18_Witness ==
    /\ last.op = "classic"
    /\ last.m.service_status =
           ("database" :> "maintenance" @@ "cache" :> "error")
    /\ "service_anomaly" \in last.anomalies
    /\ last.degraded

\* the field of the snapshot a rule domain reads
DomainField ==
    [cpu |-> "cpu_usage", memory |-> "memory_usage", disk |-> "disk_usage",
     latency |-> "latency_ms", temperature |-> "temperature_celsius"]

\* the actions of a payload that belong to a rule domain
DomainActions(payload, d) ==
    SelectSeq(Actions(payload),
              LAMBDA a : a \in {rules[d].high, rules[d].critical})

\* C19: for each of the five rule domains and every value, the rule-based
\* generator emits at most one action for the domain: the critical-tier
\* action alone from the critical threshold on, the high-tier action alone
\* from the high threshold up to the critical one, and none below (CPU 96
\* gives the critical action only, CPU 82 the high one, CPU 50 none).
C19_OneTierPerDomain ==
    last.op = "rules" =>
        /\ \A d \in DOMAIN DomainField :
               LET v == last.m[DomainField[d]]
                   acts == DomainActions(last.payload, d)
               IN  /\ Len(acts) <= 1
                   /\ v >= rules[d].critical_threshold
                          => acts = <<rules[d].critical>>
                   /\ (v >= rules[d].high_threshold
                       /\ v < rules[d].critical_threshold)
                          => acts = <<rules[d].high>>
                   /\ v < rules[d].high_threshold => acts = <<>>
        /\ last.m.cpu_usage = 96
               => DomainActions(last.payload, "cpu")
                      = <<ActionRec("CPU critique - Action immediate",
                                    "critical", "performance")>>
        /\ last.m.cpu_usage = 82
               => DomainActions(last.payload, "cpu")
                      = <<ActionRec("Optimisation CPU", "high",
                                    "performance")>>
        /\ last.m.cpu_usage = 50
               => DomainActions(last.payload, "cpu") = <<>>

\* a snapshot with CPU 96 and temperature 70 went through the generator:
\* the critical CPU action and the high-tier temperature action were emitted
C19_Witness ==
    /\ last.op = "rules"
    /\ last.m.cpu_usage = 96
    /\ last.m.temperature_celsius = 70
    /\ rules.cpu.critical \in ActionSet(last.payload)
    /\ rules.cpu.high \notin ActionSet(last.payload)
    /\ rules.temperature.high \in ActionSet(last.payload)

\* no domain, service or error-rate rule fires on the snapshot
NoRuleFires(m) ==
    /\ m.cpu_usage < 80
    /\ m.memory_usage < 85
    /\ m.disk_usage < 85
    /\ m.latency_ms < 300
    /\ m.temperature_celsius < 70
    /\ ~\E s \in DOMAIN m.service_status :
           m.service_status[s] \in {"degraded", "offline", "error"}
    /\ m.error_rate <= 1

\* C20: the action list of the rule-based generator contains the 'continue
\* monitoring' low-priority action if and only if no domain, service or
\* error-rate rule fired; it is then the only action and the overall
\* priority is 'low'.
C20_ContinueMonitoring ==
    last.op = "rules" =>
        /\ (\E a \in ActionSet(last.payload) :
                a.category = "monitoring" /\ a.priority = "low")
               <=> NoRuleFires(last.m)
        /\ NoRuleFires(last.m)
               => /\ Actions(last.payload) =
                         <<ActionRec("Surveillance continue", "low",
                                     "monitoring")>>
                  /\ last.payload.priority_level = One("low")

\* a snapshot on which nothing fires produced the single monitoring action
C20_Witness ==
    /\ last.op = "rules"
    /\ NoRuleFires(last.m)
    /\ Len(Actions(last.payload)) = 1
    /\ Actions(last.payload)[1].title = "Surveillance continue"

\* an object with an executive summary, an action list and a priority
ValidStructure(r) ==
    /\ r.kind = "dict"
    /\ {"executive_summary", "recommendations", "priority_level"}
           \subseteq DOMAIN r.body
    /\ r.body.executive_summary.t = "str"
    /\ r.body.executive_summary.s # <<>>
    /\ r.body.recommendations.t = "list"
    /\ r.body.priority_level.t = "str"

\* non-empty executive summary, empty action list, medium priority
IsDefaultStructure(r) ==
    /\ ValidStructure(r)
    /\ r.body.recommendations.l = <<>>
    /\ r.body.priority_level = One("medium")

\* C14: for every raw response text, the parse of the robustness layer
\* returns either a fully valid structure (an object with an executive
\* summary, an action list and a priority) or the fixed default structure;
\* it never returns nothing and never a value that is not such an object.
C14_ParseAlwaysValid ==
    last.op = "parse" =>
        ValidStructure(last.parsed) \/ IsDefaultStructure(last.parsed)

\* C15: a response to an AI detection call is parsed with the same
\* three-tier degrade as a recommendation response: on the same text the
\* detection path and the recommendation path give the same outcome, and a
\* valid object embedded in prose is extracted and parsed.
C15_SharedRobustnessLayer ==
    last.op = "parse" => last.detection = last.recommendation

\* the three items of connection configuration are present
AllThreePresent(cfg) == cfg.endpoint /\ cfg.api_key /\ cfg.deployment_name

\* C16: the availability probe is true exactly when the endpoint, the key
\* and the deployment identifier are all present, on the detection path and
\* on the recommendation path alike: the two paths report the same
\* availability for every configuration.
C16_AvailabilityProbe ==
    last.op = "describe" =>
        /\ last.detection_available = last.recommendation_available
        /\ ~AllThreePresent(last.cfg) => ~last.detection_available
        /\ ~AllThreePresent(last.cfg) => ~last.recommendation_available
        /\ (AllThreePresent(last.cfg) /\ last.cfg.api_version
            /\ ~last.ctor_raises)
               => last.detection_available /\ last.recommendation_available

\* the key under which a selector reports the availability
AvailabilityKey(component) ==
    IF component = "analysis" THEN "detector_available"
    ELSE "generator_available"

\* the probe of the path a selector belongs to
Reachable ==
    IF last.component = "analysis" THEN last.detection_available
    ELSE last.recommendation_available

\* C17 (as stated): describe() of a selector returns the strategy name and
\* an availability value, always true under the threshold/rule-based
\* strategy and equal to the reachability of the completion service under
\* the AI strategy.
C17_DescribeAvailability ==
    last.op = "describe" =>
        /\ last.info["current_method"] =
               (IF last.method = "llm" THEN "llm" ELSE "classic")
        /\ AvailabilityKey(last.component) \in DOMAIN last.info
        /\ last.info[AvailabilityKey(last.component)] =
               (IF last.method = "llm" THEN Reachable ELSE TRUE)

\* C17 (amended): describe() returns the strategy name; it carries an
\* availability value only under the AI strategy, where the value equals the
\* reachability of the completion service; under the threshold/rule-based
\* strategy it carries no availability value at all.
C17_DescribeAvailabilityAIOnly ==
    last.op = "describe" =>
        /\ last.info["current_method"] =
               (IF last.method = "llm" THEN "llm" ELSE "classic")
        /\ (AvailabilityKey(last.component) \in DOMAIN last.info)
               <=> last.method = "llm"
        /\ last.method = "llm"
               => last.info[AvailabilityKey(last.component)] = Reachable

\* the detection selector was described under the AI strategy with an
\* unreachable service, and under the threshold strategy
C17_Witness ==
    /\ last.op = "describe"
    /\ last.component = "analysis"
    /\ last.method = "llm"
    /\ ~last.detection_available
    /\ last.info["detector_available"] = FALSE

\* the rank of the highest priority among the actions of a payload
MaxActionRank(payload) ==
    CHOOSE r \in 0..4 :
        /\ \A a \in ActionSet(payload) : Rank(a.priority) <= r
        /\ r = 0 \/ \E a \in ActionSet(payload) : Rank(a.priority) = r

\* C11: in every report payload produced by either generator (the rule-based
\* one, and the AI one after validation of the primary response and after
\* enrichment with focused actions) the overall priority is never lower
\* than the priority of any action of the list, under
\* low < medium < high < critical; for the rule-based generator it equals
\* the maximum priority of the fired actions.
C11_OverallPriority ==
    (last.op = "generate_single" /\ last.response = "generation_success") =>
        LET payload == last.data
            overall == Rank(payload.priority_level.s[1])
        IN  /\ \A a \in ActionSet(payload) : overall >= Rank(a.priority)
            /\ last.method = "classic" => overall = MaxActionRank(payload)

\* C12: generate_report of the AI generator upserts a report tagged with
\* the AI strategy when the payload came from the completion service, and
\* tagged with the fallback tag when the rule-based generator was used
\* internally (service unavailable, primary call failed, or an exception).
C12_ReportTag ==
    (/\ last.op = "generate_single"
     /\ last.method = "llm"
     /\ last.response = "generation_success") =>
        LET row == ReportOf(reports, last.sid)
        IN  /\ row = last.ret[1]
            /\ row.generation_method =
                   (IF last.data.analysis_type = One("llm_fallback")
                    THEN "llm_fallback" ELSE "llm")

\* C13: every request variant of the AI recommendation generator (primary,
\* focused-area, capacity-projection, emergency-response, maintenance-plan)
\* returns a payload, the fallback one of the variant when the completion
\* service is unavailable or the call fails: no variant returns nothing.
C13_NeverNothing ==
    last.op = "variant" =>
        /\ last.answer # <<>>
        /\ DOMAIN last.answer[1] # {}

\* the tag of the fallback payload of each variant of the generator
FallbackTag ==
    [primary |-> "llm_fallback", focused |-> "focused_fallback",
     capacity |-> "capacity_fallback", emergency |-> "emergency_fallback"]

\* the service is unavailable, the call fails or something raises
CallFails ==
    \/ ~last.available
    \/ last.raises
    \/ last.reply = ApiError

\* C13 (amended): the four variants the generator has (primary,
\* focused-area, capacity-projection, emergency-response) always return a
\* payload, and return the fallback payload of the variant when the
\* completion service is unavailable or the call fails; the maintenance
\* plan, which exists in the engine only and has no fallback, returns
\* nothing in those cases.
C13_GeneratorVariantsFallBack ==
    last.op = "variant" =>
        IF last.variant = "maintenance"
        THEN CallFails => last.answer = <<>>
        ELSE /\ last.answer # <<>>
             /\ DOMAIN last.answer[1] # {}
             /\ CallFails =>
                    last.answer[1].analysis_type =
                        One(FallbackTag[last.variant])

\* the emergency variant was requested while the service was reachable and
\* the call failed, and the emergency fallback came back
C13_Witness ==
    /\ last.op = "variant"
    /\ last.variant = "emergency"
    /\ last.available
    /\ ~last.raises
    /\ last.reply = ApiError
    /\ last.answer # <<>>
    /\ last.answer[1].analysis_type = One("emergency_fallback")
    /\ last.answer[1].priority_level = One("critical")

\* the eight numeric monitored fields
NumericFields == DOMAIN thresholds

\* C21: for every snapshot whose eight numeric monitored values each exceed
\* their default threshold by one unit or more and in which at least one
\* service has status error, the threshold detector yields all nine flags
\* true and a severity score of exactly 10, and a classic analysis that
\* returns its result marks the snapshot anomalous and completed.
C21_AllFlagsScoreTen ==
    (/\ last.op = "threshold"
     /\ \A f \in NumericFields : last.m[f] >= thresholds[f] + 1
     /\ \E sv \in DOMAIN last.m.service_status :
            last.m.service_status[sv] = "error")
    => /\ last.anomalies = FlagFields
       /\ Cardinality(last.anomalies) = 9
       /\ last.severity_score = 10
       /\ last.ret # <<>>
             => /\ last.ret[1].flags = FlagFields
                /\ last.ret[1].severity_score = 10
                /\ last.after.is_anomalous
                /\ last.after.analysis_completed

\* every value one unit over its threshold and the cache in error: nine
\* flags, score 10, and the stored snapshot anomalous and completed
C21_Witness ==
    /\ last.op = "threshold"
    /\ \A f \in NumericFields : last.m[f] = thresholds[f] + 1
    /\ last.m.service_status
           = ("database" :> "online" @@ "cache" :> "error")
    /\ last.ret # <<>>
    /\ last.ret[1].severity_score = 10
    /\ last.after.is_anomalous
    /\ last.after.analysis_completed

\* C22: for every snapshot whose eight numeric monitored values are all
\* below their thresholds and whose services are all online, the threshold
\* detector yields all nine flags false, severity 0 and the fixed no-anomaly
\* summary, and a classic analysis that returns its result leaves the
\* snapshot with analysis_completed true and is_anomalous false.
C22_NoFlagsScoreZero ==
    (/\ last.op = "threshold"
     /\ \A f \in NumericFields : last.m[f] < thresholds[f]
     /\ \A sv \in DOMAIN last.m.service_status :
            last.m.service_status[sv] = "online")
    => /\ last.anomalies = {}
       /\ last.severity_score = 0
       /\ last.summary = <<"Aucune anomalie detectee par analyse classique">>
       /\ last.ret # <<>>
             => /\ last.ret[1].flags = {}
                /\ last.ret[1].severity_score = 0
                /\ last.ret[1].anomaly_summary = last.summary
                /\ last.after.analysis_completed
                /\ ~last.after.is_anomalous

\* every value one unit under its threshold, both services online, and the
\* analysis stored
C22_Witness ==
    /\ last.op = "threshold"
    /\ \A f \in NumericFields : last.m[f] = thresholds[f] - 1
    /\ DOMAIN last.m.service_status = {"database", "cache"}
    /\ \A sv \in DOMAIN last.m.service_status :
           last.m.service_status[sv] = "online"
    /\ last.ret # <<>>
    /\ last.summary = <<"Aucune anomalie detectee par analyse classique">>
    /\ last.after.analysis_completed
    /\ ~last.after.is_anomalous

\* 1 when the flag is among the true flags, else 0
Bit(flags, f) == IF f \in flags THEN 1 ELSE 0

\* C23: for every combination of the nine flags the score of the threshold
\* detector is min(10, sum of the weights of the true flags), with weights
\* disk = error-rate = service = 3, cpu = memory = latency = temperature = 2
\* and io = power = 1; it is 0 exactly when no flag is true.
C23_WeightedScore ==
    last.op = "threshold" =>
        LET fl == last.anomalies
            sum == 3 * (Bit(fl, "disk_anomaly") + Bit(fl, "error_rate_anomaly")
                        + Bit(fl, "service_anomaly"))
                   + 2 * (Bit(fl, "cpu_anomaly") + Bit(fl, "memory_anomaly")
                          + Bit(fl, "latency_anomaly")
                          + Bit(fl, "temperature_anomaly"))
                   + Bit(fl, "io_anomaly") + Bit(fl, "power_anomaly")
        IN  /\ last.severity_score = (IF sum < 10 THEN sum ELSE 10)
            /\ last.severity_score \in 0..10
            /\ (last.severity_score = 0) <=> (fl = {})

\* the disk, error-rate, service and cpu flags alone: the weights sum to 11
\* and the score is capped at 10
C23_Witness ==
    /\ last.op = "threshold"
    /\ last.anomalies = {"disk_anomaly", "error_rate_anomaly",
                         "service_anomaly", "cpu_anomaly"}
    /\ last.severity_score = 10

\* C24: the value the AI analyze and generate_report entry points return
\* lets the caller tell "strategy unavailable, use the other one" from
\* "processing failed": the two outcomes never produce the same value.
C24_OutcomesDiffer ==
    last.op = "outcome" => last.unavailable # last.failed

\* the five areas in the fixed order, and the ones a snapshot is critical in
AreaOrder == <<"cpu", "memory", "storage", "network", "services">>

CriticalIn(m, area) ==
    CASE area = "cpu" -> m.cpu_usage > 85
      [] area = "memory" -> m.memory_usage > 85
      [] area = "storage" -> m.disk_usage > 85
      [] area = "network" -> m.latency_ms > 500
      [] area = "services" ->
             \E sv \in DOMAIN m.service_status :
                 m.service_status[sv] \in {"degraded", "offline", "error"}

\* C25: after a successful primary AI recommendation the generator issues at
\* most one focused call, for the first detected critical area in the order
\* cpu, memory, storage, network, services, and only when an area is
\* detected and the service is available; the resulting action list is the
\* primary list followed by at most two focused actions, each tagged with
\* its source area; when no focused call is made or it fails the primary
\* actions are returned unchanged.
C25_Enrichment ==
    (last.op = "enrich" /\ Truthy(last.primary)) =>
        LET areas == SelectSeq(AreaOrder, LAMBDA a : CriticalIn(last.m, a))
            base == Actions(last.primary.body)
            out == Actions(last.payload)
            offered == IF Truthy(last.focused)
                          /\ "recommendations" \in DOMAIN last.focused.body
                       THEN last.focused.body.recommendations.l
                       ELSE <<>>
        IN  /\ Len(last.calls) <= 1
            /\ last.calls = (IF areas # <<>> /\ last.available
                             THEN <<areas[1]>> ELSE <<>>)
            /\ Len(out) >= Len(base)
            /\ Len(out) <= Len(base) + 2
            /\ SubSeq(out, 1, Len(base)) = base
            /\ \A i \in (Len(base) + 1)..Len(out) :
                   /\ out[i].source = "focused_" \o last.calls[1]
                   /\ [out[i] EXCEPT !.source = ""] = offered[i - Len(base)]
            /\ (last.calls = <<>> \/ last.r2 = ApiError) => out = base

\* memory and storage are critical, cpu is not: one focused call, for
\* memory, and two of its three actions follow the three primary ones
C25_Witness ==
    /\ last.op = "enrich"
    /\ Truthy(last.primary)
    /\ last.m.cpu_usage = 85
    /\ last.m.memory_usage = 86
    /\ last.m.disk_usage = 86
    /\ last.calls = <<"memory">>
    /\ Len(Actions(last.primary.body)) = 3
    /\ Len(Actions(last.payload)) = 5
    /\ Actions(last.payload)[5].source = "focused_memory"

\* C26: a strategy-switch request (analysis under strategy B of a snapshot
\* that holds a result of strategy A) whose new analysis fails leaves the
\* snapshot with no Anomaly Result and with analysis_completed and
\* is_anomalous both false: the result of strategy A is not restored.
C26_FailedSwitch ==
    [][(/\ last'.op = "analyze_single"
        /\ last'.analyzed
        /\ last'.ret = <<>>
        /\ metrics[last'.sid].analysis_completed
        /\ HasDetection(detections, last'.sid)
        /\ DetectionOf(detections, last'.sid).analysis_method
               # last'.method)
       => /\ ~HasDetection(detections', last'.sid)
          /\ ~metrics'[last'.sid].analysis_completed
          /\ ~metrics'[last'.sid].is_anomalous]_vars

\* C27: analysis and report generation do not write each other's state: an
\* analysis request, a strategy switch included, leaves every report as it
\* was, so that a report outlives the result it was generated from, and a
\* report request leaves the two booleans of every snapshot and every
\* result as they were
C27_SeparateState ==
    [][/\ last'.op = "analyze_single" => reports' = reports
       /\ (/\ last'.op = "analyze_single"
           /\ HasDetection(detections, last'.sid)
           /\ ~HasDetection(detections', last'.sid)
           /\ ReportRowsOf(reports, last'.sid) # {})
          => /\ ReportRowsOf(reports', last'.sid) # {}
             /\ ReportOf(reports', last'.sid) = ReportOf(reports, last'.sid)
       /\ last'.op = "generate_single"
          => /\ detections' = detections
             /\ \A sid \in Snapshots :
                    /\ metrics'[sid].analysis_completed
                           = metrics[sid].analysis_completed
                    /\ metrics'[sid].is_anomalous
                           = metrics[sid].is_anomalous]_vars

\* a strategy switch deleted the result of a snapshot and stored no new
\* one, and the report generated from the deleted result is still there
C27_Witness ==
    /\ last.op = "analyze_single"
    /\ "delete" \in {last.ops[i] : i \in DOMAIN last.ops}
    /\ ~HasDetection(detections, last.sid)
    /\ ReportRowsOf(reports, last.sid) # {}


\* the report of snapshot sid was created or replaced by the step
ReportWritten(sid) ==
    /\ ReportRowsOf(reports', sid) # {}
    /\ \/ ReportRowsOf(reports, sid) = {}
       \/ ReportOf(reports', sid) # ReportOf(reports, sid)

\* C28: through the single generation, the batch generation and the
\* analysis that comes with an ingestion, a report is written for a
\* snapshot only when analysis_completed of that snapshot is true at that
\* moment, a successful analysis having set it: in the two generation
\* requests it was true before the step, in the ingestion the same step
\* stored the result and set it
C28_ReportAfterAnalysis ==
    [][\A sid \in Snapshots :
           ReportWritten(sid)
           => /\ metrics'[sid].analysis_completed
              /\ \/ metrics[sid].analysis_completed
                 \/ /\ last'.op = "auto_analysis"
                    /\ last'.sid = sid
                    /\ last'.ret # <<>>
                    /\ HasDetection(detections', sid)]_vars

\* the ingestion of a snapshot analysed it and stored its report
C28_Witness ==
    /\ last.op = "auto_analysis"
    /\ last.response = "recommendations_generated"
    /\ ReportRowsOf(reports, last.sid) # {}
    /\ metrics[last.sid].analysis_completed


\* the flag of the detector that goes with a rule domain
DomainFlag ==
    [cpu |-> "cpu_anomaly", memory |-> "memory_anomaly",
     disk |-> "disk_anomaly", latency |-> "latency_anomaly",
     temperature |-> "temperature_anomaly"]

\* C29: with the default thresholds, whenever the threshold detector sets
\* the cpu, memory, disk, latency, temperature, error-rate or service flag
\* of a snapshot, the rule-based generator emits an action of the same
\* domain for it, so that a snapshot with one of these seven flags never
\* gets the lone 'continue monitoring' action
C29_FlagsGetActions ==
    last.op = "classic" =>
        /\ \A d \in DOMAIN DomainFlag :
               DomainFlag[d] \in last.anomalies
                   => DomainActions(last.payload, d) # <<>>
        /\ "error_rate_anomaly" \in last.anomalies
               => \E a \in ActionSet(last.payload) :
                      a.category = "reliability"
        /\ "service_anomaly" \in last.anomalies
               => \E a \in ActionSet(last.payload) : a.category = "services"
        /\ last.anomalies \ {"io_anomaly", "power_anomaly"} # {}
               => MonitoringAction \notin ActionSet(last.payload)

\* CPU 81 and an error rate of 6 hundredths, everything else below the
\* thresholds of the detector: two flags, the high-tier CPU action and the
\* error-rate action
C29_Witness ==
    /\ last.op = "classic"
    /\ last.anomalies = {"cpu_anomaly", "error_rate_anomaly"}
    /\ last.m.cpu_usage = 81
    /\ rules.cpu.high \in ActionSet(last.payload)
    /\ \E a \in ActionSet(last.payload) : a.category = "reliability"
    /\ MonitoringAction \notin ActionSet(last.payload)


\* the snapshots a detection batch would select
Unprocessed == {sid \in Snapshots : ~metrics[sid].analysis_completed}

====
